---------------------------- MODULE Spec2Model ----------------------------
(***************************************************************************)
(* Model of the equity engine of rust_poker: the public calls exact_equity *)
(* and approx_equity (src/src/equity_calculator/simulator.rs), the range   *)
(* compiler (hand_range.rs, combined_range.rs) and the hand evaluator      *)
(* (hand_evaluator/*.rs, gen_eval_table).                                  *)
(*                                                                         *)
(* Arrays of the code are functions over 0..n-1 so that the code's indices *)
(* are kept.  A 64-bit card mask is the set of its set bits.  The 64-bit   *)
(* key word of a Hand is kept as four 16-bit limbs with carry propagation. *)
(***************************************************************************)
EXTENDS Integers, Naturals, Sequences, FiniteSets, TLC

(***************************************************************************)
(* Program constants                                                       *)
(***************************************************************************)
CARD_COUNT == 52
RANK_COUNT == 13
SUIT_COUNT == 4
MIN_PLAYERS == 2
MAX_PLAYERS == 6
BOARD_CARDS == 5
MAX_SIZE == 10000
LOOKUP_THRESHOLD == 500
RESERVE_WORK == 2000000
MERGE_EVALS == 10000
MC_BATCH == 4096
LIMB == 2 ^ 16

\* powers of two as rank constants
RanksPowersOfTwo == [r \in 0..12 |-> 2 ^ r]

\* RANKS of constants.rs, indexed by rank 0..12
RANKS ==
  [r \in 0..12 |->
     CASE r = 0 -> 8192 [] r = 1 -> 32769 [] r = 2 -> 69632 [] r = 3 -> 237568
       [] r = 4 -> 593920 [] r = 5 -> 1531909 [] r = 6 -> 3563520
       [] r = 7 -> 4300819 [] r = 8 -> 4685870 [] r = 9 -> 4690024
       [] r = 10 -> 4767972 [] r = 11 -> 4780561 [] r = 12 -> 4801683]

(***************************************************************************)
(* Small arithmetic helpers                                                *)
(***************************************************************************)
Min(a, b) == IF a < b THEN a ELSE b
Max(a, b) == IF a > b THEN a ELSE b

RECURSIVE SumFn(_, _)
\* sum of f over the finite set S of its domain
SumFn(f, S) ==
  IF S = {} THEN 0
  ELSE LET x == CHOOSE y \in S : TRUE IN f[x] + SumFn(f, S \ {x})

\* bit j of the non-negative integer i
Bit(i, j) == (i \div (2 ^ j)) % 2

\* u32::count_ones of a mask below 2^MAX_PLAYERS
PopCount(i) == Bit(i, 0) + Bit(i, 1) + Bit(i, 2) + Bit(i, 3) + Bit(i, 4) + Bit(i, 5)

RankOf(c) == c \div 4
SuitOf(c) == c % 4

(***************************************************************************)
(* Hand (hand.rs): key word as limbs k0..k3 (k0 lowest), mask word as the  *)
(* set of its set bits.                                                    *)
(***************************************************************************)
HandEmpty == [k0 |-> 0, k1 |-> 0, k2 |-> 0, k3 |-> 13107, mask |-> {}]

\* a card constant whose suit counter is one bit per suit
CardHandSuitBit(c) ==
  [k0 |-> RANKS[RankOf(c)] % LIMB,
   k1 |-> RANKS[RankOf(c)] \div LIMB,
   k2 |-> 1,
   k3 |-> 2 ^ SuitOf(c),
   mask |-> {(3 - SuitOf(c)) * 16 + RankOf(c)}]

\* the constant of one card: x + y + z of init_card_constants
CardHand(c) ==
  [k0 |-> RANKS[RankOf(c)] % LIMB,
   k1 |-> RANKS[RankOf(c)] \div LIMB,
   k2 |-> 1,
   k3 |-> 2 ^ (4 * SuitOf(c)),
   mask |-> {(3 - SuitOf(c)) * 16 + RankOf(c)}]

\* an addition that takes the mask word of the right operand
HandAddRightMask(a, b) ==
  LET s0 == a.k0 + b.k0
      s1 == a.k1 + b.k1 + (s0 \div LIMB)
      s2 == a.k2 + b.k2 + (s1 \div LIMB)
      s3 == a.k3 + b.k3 + (s2 \div LIMB)
  IN [k0 |-> s0 % LIMB, k1 |-> s1 % LIMB, k2 |-> s2 % LIMB, k3 |-> s3 % LIMB,
      mask |-> b.mask]

\* impl Add for Hand: 64-bit addition of the key words, OR of the mask words
HandAdd(a, b) ==
  LET s0 == a.k0 + b.k0
      s1 == a.k1 + b.k1 + (s0 \div LIMB)
      s2 == a.k2 + b.k2 + (s1 \div LIMB)
      s3 == a.k3 + b.k3 + (s2 \div LIMB)
  IN [k0 |-> s0 % LIMB, k1 |-> s1 % LIMB, k2 |-> s2 % LIMB, k3 |-> s3 % LIMB,
      mask |-> a.mask \cup b.mask]

\* Hand::from_hole_cards: CARDS[c1] + CARDS[c2]
HandFromHoleCards(c1, c2) == HandAdd(CardHand(c1), CardHand(c2))

RECURSIVE HandFromCards(_)
\* Hand::from_bit_mask: empty() plus the card constants of the mask's cards
HandFromCards(cs) ==
  IF cs = {} THEN HandEmpty
  ELSE LET c == CHOOSE x \in cs : \A y \in cs : y <= x
       IN HandAdd(HandFromCards(cs \ {c}), CardHand(c))

\* Hand::count: the low nibble of the counter bits
HandCount(h) == h.k2 % 16

\* Hand::suit_count
HandSuitCount(h, s) == ((h.k3 \div (16 ^ s)) % 16) - 3

\* Hand::has_flush: key & FLUSH_CHECK_MASK64
HandHasFlush(h) == \E s \in 0..3 : (h.k3 \div (16 ^ s)) % 16 >= 8

\* a flush key read from the slot 16 * suit of the mask word
HandFlushKeySuitSlot(h) ==
  IF HandHasFlush(h)
  THEN LET s == CHOOSE t \in 0..3 :
                  /\ (h.k3 \div (16 ^ t)) % 16 >= 8
                  /\ \A u \in 0..3 : (h.k3 \div (16 ^ u)) % 16 >= 8 => u <= t
           shift == 16 * s
       IN {b - shift : b \in {x \in h.mask : x >= shift /\ x < shift + 16}}
  ELSE {}

\* Hand::get_flush_key: the 16-bit slot of the mask word selected by the
\* leading zeros of the flush-check bits (the highest suit nibble with bit 3)
HandFlushKey(h) ==
  IF HandHasFlush(h)
  THEN LET s == CHOOSE t \in 0..3 :
                  /\ (h.k3 \div (16 ^ t)) % 16 >= 8
                  /\ \A u \in 0..3 : (h.k3 \div (16 ^ u)) % 16 >= 8 => u <= t
           shift == (12 - 4 * s) * 4
       IN {b - shift : b \in {x \in h.mask : x >= shift /\ x < shift + 16}}
  ELSE {}

\* Hand::get_rank_key: the low 32 bits of the key word
HandRankKey(h) == h.k1 * LIMB + h.k0

\* number of cards of rank r in the mask word
RankCount(h, r) == Cardinality({s \in 0..3 : (16 * s + r) \in h.mask})

(***************************************************************************)
(* Evaluator (evaluator.rs, gen_eval_table).  The tables hold, for every   *)
(* rank multiset, the value the generator's populate() assigned: category  *)
(* in the high bits, and within a category the position of the best five   *)
(* cards in the generator's depth-first order, which is the lexicographic  *)
(* order of the deciding ranks.  HandValue/FlushValue give a value with    *)
(* the same order: category * 13^5 + the deciding ranks as base-13 digits. *)
(***************************************************************************)
CATEGORY_SPAN == 13 ^ 5

\* get_biggest_straight over a set of present ranks; -1 when there is none
BiggestStraight(P) ==
  IF \E t \in 4..12 : (t - 4)..t \subseteq P
  THEN CHOOSE t \in 4..12 :
         /\ (t - 4)..t \subseteq P
         /\ \A u \in 4..12 : (u - 4)..u \subseteq P => u <= t
  ELSE IF {12, 0, 1, 2, 3} \subseteq P THEN 3 ELSE -1

MaxOf(S) == CHOOSE x \in S : \A y \in S : y <= x

RECURSIVE Digits(_, _, _)
\* the k highest ranks of S as base-13 digits, padded to `width` digits
Digits(S, k, width) ==
  IF width = 0 THEN 0
  ELSE IF k = 0 \/ S = {} THEN 0
  ELSE LET m == MaxOf(S)
       IN m * (13 ^ (width - 1)) + Digits(S \ {m}, k - 1, width - 1)

\* orig_lookup[get_key(ranks, false)] for the rank multiset held in the
\* mask word M (bit b holds a card of rank b % 16)
HandValue(M) ==
  LET present == {b % 16 : b \in M}
      multi == {r \in present : Cardinality({b \in M : b % 16 = r}) >= 2}
      trips == {r \in multi : Cardinality({b \in M : b % 16 = r}) >= 3}
      quads == {r \in trips : Cardinality({b \in M : b % 16 = r}) = 4}
      st == BiggestStraight(present)
  IN IF quads # {}
     THEN LET q == MaxOf(quads)
          IN 8 * CATEGORY_SPAN + q * (13 ^ 4) + Digits(present \ {q}, 1, 4)
     ELSE IF trips # {} /\ multi \ {MaxOf(trips)} # {}
     THEN LET t == MaxOf(trips)
          IN 7 * CATEGORY_SPAN + t * (13 ^ 4) + Digits(multi \ {t}, 1, 4)
     ELSE IF st >= 0
     THEN 5 * CATEGORY_SPAN + st
     ELSE IF trips # {}
     THEN LET t == MaxOf(trips)
          IN 4 * CATEGORY_SPAN + t * (13 ^ 4) + Digits(present \ {t}, 2, 4)
     ELSE IF Cardinality(multi) >= 2
     THEN LET p1 == MaxOf(multi)
              p2 == MaxOf(multi \ {p1})
          IN 3 * CATEGORY_SPAN + p1 * (13 ^ 4) + p2 * (13 ^ 3)
               + Digits(present \ {p1, p2}, 1, 3)
     ELSE IF multi # {}
     THEN LET p == MaxOf(multi)
          IN 2 * CATEGORY_SPAN + p * (13 ^ 4) + Digits(present \ {p}, 3, 4)
     ELSE 1 * CATEGORY_SPAN + Digits(present, 5, 5)

\* flush_table[key] for the set of ranks held in the flush suit
FlushValue(P) ==
  LET st == BiggestStraight(P)
  IN IF st >= 0 THEN 9 * CATEGORY_SPAN + st
     ELSE 6 * CATEGORY_SPAN + Digits(P, 5, 5)

\* rank_table[perf_hash(hand.get_rank_key())]: the rank key is the sum of
\* RANKS over the hand's cards, which the mask word holds as well
evaluate_without_flush(h) == HandValue(h.mask)

\* Evaluator::evaluate
evaluate(h) ==
  IF HandHasFlush(h) THEN FlushValue(HandFlushKey(h))
  ELSE evaluate_without_flush(h)

(***************************************************************************)
(* The evaluation tables as gen_eval_table builds them (generate_tables,   *)
(* populate).  The nibble word `ranks` of the generator is the function    *)
(* rank -> number of cards of that rank.  populate adds one to hand_value  *)
(* on every node of two to five cards, just before it writes the node, so  *)
(* the i-th node that the calls of one category write holds base + i; a    *)
(* deeper node holds the value of the five-card node above it on its       *)
(* depth-first path (Descend).  The tables are built to COUNTED_CARDS.     *)
(***************************************************************************)
HAND_CATEGORY_OFFSET == 4096
HAND_CATEGORY_SHIFT == 12
MIN_CARDS == 2
MAX_CARDS == 7
COUNTED_CARDS == 5

\* FLUSH_RANKS of constants.rs
FLUSH_RANKS == [r \in 0..(RANK_COUNT - 1) |-> 2 ^ r]

\* a nibble word held as an array of its thirteen nibbles
Nibbles(f) == f @@ <<>>

NoRanks == Nibbles([r \in 0..(RANK_COUNT - 1) |-> 0])

\* the nibble word with n cards of each rank of S
RanksOf(S, n) == Nibbles([r \in 0..(RANK_COUNT - 1) |-> IF r \in S THEN n ELSE 0])

RanksPlus(a, b) == Nibbles([r \in 0..(RANK_COUNT - 1) |-> a[r] + b[r]])

\* get_key(ranks, flush): the sum of the rank constants of the cards
get_key(ranks, flush) ==
  LET K == IF flush THEN FLUSH_RANKS ELSE RANKS
  IN ranks[0] * K[0] + ranks[1] * K[1] + ranks[2] * K[2] + ranks[3] * K[3]
       + ranks[4] * K[4] + ranks[5] * K[5] + ranks[6] * K[6]
       + ranks[7] * K[7] + ranks[8] * K[8] + ranks[9] * K[9]
       + ranks[10] * K[10] + ranks[11] * K[11] + ranks[12] * K[12]

\* get_biggest_straight(ranks): 0 when the ranks hold no straight
get_biggest_straight(ranks) ==
  Max(BiggestStraight({r \in 0..(RANK_COUNT - 1) : ranks[r] % 8 # 0}), 0)

\* the four tests of populate's loop: the card of rank r that made
\* new_ranks improves the hand beyond the limits of the call
Improves(new_ranks, r, lim) ==
  \/ new_ranks[r] = 2 /\ r >= lim.max_pair
  \/ new_ranks[r] = 3 /\ r >= lim.max_trips
  \/ new_ranks[r] >= 4
  \/ get_biggest_straight(new_ranks) > lim.max_straight

RECURSIVE Flatten(_, _, _)
\* f[lo] \o ... \o f[hi]
Flatten(f, lo, hi) ==
  IF lo > hi THEN <<>>
  ELSE IF lo = hi THEN f[lo]
  ELSE Flatten(f, lo, (lo + hi) \div 2) \o Flatten(f, (lo + hi) \div 2 + 1, hi)

RECURSIVE populate(_, _, _, _, _)
\* populate down to `depth` cards: the keys it writes, in program order
populate(ranks, n_cards, end_rank, lim, depth) ==
  LET writes == n_cards >= MIN_CARDS \/ (lim.flush /\ n_cards >= 5)
      own == IF writes THEN <<get_key(ranks, lim.flush)>> ELSE <<>>
  IN IF writes /\ n_cards = depth THEN own
     ELSE own \o Flatten([k \in 1..end_rank |->
                            IF Improves([ranks EXCEPT ![k - 1] = @ + 1], k - 1, lim)
                            THEN <<>>
                            ELSE populate([ranks EXCEPT ![k - 1] = @ + 1],
                                          n_cards + 1, k, lim, depth)],
                         1, end_rank)

\* a call of populate that lets no rank pair up
SeedNoPair(base, ranks, n_cards, max_pair, max_trips, max_straight, flush) ==
  [base |-> base, ranks |-> ranks, n_cards |-> n_cards,
   lim |-> [max_pair |-> 0, max_trips |-> max_trips,
            max_straight |-> max_straight, flush |-> flush]]

\* one call of populate made by generate_tables, base the value hand_value
\* was set to before the calls of its category
Seed(base, ranks, n_cards, max_pair, max_trips, max_straight, flush) ==
  [base |-> base, ranks |-> ranks, n_cards |-> n_cards,
   lim |-> [max_pair |-> max_pair, max_trips |-> max_trips,
            max_straight |-> max_straight, flush |-> flush]]

StraightRanks(top) ==
  IF top = 3 THEN RanksOf({12, 0, 1, 2, 3}, 1) ELSE RanksOf((top - 4)..top, 1)

\* r1 of the k-th pass of `for r1 in 0..rc { for r2 in 0..r1`
TwoPairHigh(k) == CHOOSE r1 \in 1..(RANK_COUNT - 1) :
                    (r1 * (r1 - 1)) \div 2 < k /\ k <= (r1 * (r1 + 1)) \div 2

\* the calls of populate made by generate_tables, in program order
Seeds ==
  << Seed(1 * HAND_CATEGORY_OFFSET, NoRanks, 0, 0, 0, 0, FALSE) >>
  \o [k \in 1..RANK_COUNT |->
        Seed(2 * HAND_CATEGORY_OFFSET, RanksOf({k - 1}, 2), 2, 0, 0, 0, FALSE)]
  \o [k \in 1..((RANK_COUNT * (RANK_COUNT - 1)) \div 2) |->
        LET r1 == TwoPairHigh(k)
            r2 == k - 1 - (r1 * (r1 - 1)) \div 2
        IN Seed(3 * HAND_CATEGORY_OFFSET, RanksOf({r1, r2}, 2), 4,
                r2, 0, 0, FALSE)]
  \o [k \in 1..RANK_COUNT |->
        Seed(4 * HAND_CATEGORY_OFFSET, RanksOf({k - 1}, 3), 3,
             0, k - 1, 0, FALSE)]
  \o [k \in 1..(RANK_COUNT - 3) |->
        Seed(5 * HAND_CATEGORY_OFFSET, StraightRanks(k + 2), 5,
             RANK_COUNT, RANK_COUNT, k + 2, FALSE)]
  \o << Seed(6 * HAND_CATEGORY_OFFSET, NoRanks, 0, 0, 0, 0, TRUE) >>
  \o [k \in 1..(RANK_COUNT * (RANK_COUNT - 1)) |->
        LET r1 == (k - 1) \div (RANK_COUNT - 1)
            i2 == (k - 1) % (RANK_COUNT - 1)
            r2 == IF i2 < r1 THEN i2 ELSE i2 + 1
        IN Seed(7 * HAND_CATEGORY_OFFSET,
                RanksPlus(RanksOf({r1}, 3), RanksOf({r2}, 2)), 5,
                r2, r1, RANK_COUNT, FALSE)]
  \o [k \in 1..RANK_COUNT |->
        Seed(8 * HAND_CATEGORY_OFFSET, RanksOf({k - 1}, 4), 4,
             RANK_COUNT, RANK_COUNT, RANK_COUNT, FALSE)]
  \o [k \in 1..(RANK_COUNT - 3) |->
        Seed(9 * HAND_CATEGORY_OFFSET, StraightRanks(k + 2), 5,
             0, 0, k + 2, TRUE)]

\* the keys written by the calls of the category with the given base
CategoryWrites(base) ==
  Flatten([k \in 1..Len(Seeds) |->
             IF Seeds[k].base = base
             THEN populate(Seeds[k].ranks, Seeds[k].n_cards, RANK_COUNT,
                           Seeds[k].lim, COUNTED_CARDS)
             ELSE <<>>],
          1, Len(Seeds))

RECURSIVE TableOf(_, _, _, _)
\* the array after the writes lo..hi of a category
TableOf(keys, base, lo, hi) ==
  IF lo > hi THEN <<>>
  ELSE IF lo = hi THEN keys[lo] :> base + lo
  ELSE TableOf(keys, base, (lo + hi) \div 2 + 1, hi)
         @@ TableOf(keys, base, lo, (lo + hi) \div 2)

\* the array a category leaves behind
CategoryTable(c) ==
  TableOf(CategoryWrites(c * HAND_CATEGORY_OFFSET), c * HAND_CATEGORY_OFFSET,
          1, Len(CategoryWrites(c * HAND_CATEGORY_OFFSET)))

\* generate_tables: orig_lookup and flush_table over the keys of at most
\* COUNTED_CARDS cards (a later write wins)
orig_lookup ==
  CategoryTable(8) @@ CategoryTable(7) @@ CategoryTable(5) @@ CategoryTable(4)
    @@ CategoryTable(3) @@ CategoryTable(2) @@ CategoryTable(1)

flush_table == CategoryTable(9) @@ CategoryTable(6)

RECURSIVE Descend(_, _, _, _, _)
\* populate's path from the node `cur` of n cards through the cards of
\* `extra`, highest rank first (the loop hands r + 1 down as end_rank):
\* whether every card passes the tests, and the last node of at most
\* COUNTED_CARDS cards on the way
Descend(cur, n, extra, lim, at5) ==
  IF \A r \in 0..(RANK_COUNT - 1) : extra[r] = 0
  THEN [ok |-> TRUE, at5 |-> at5]
  ELSE LET r == CHOOSE x \in 0..(RANK_COUNT - 1) :
                  extra[x] > 0 /\ \A y \in 0..(RANK_COUNT - 1) : extra[y] > 0 => y <= x
       IN IF Improves([cur EXCEPT ![r] = @ + 1], r, lim)
          THEN [ok |-> FALSE, at5 |-> at5]
          ELSE Descend([cur EXCEPT ![r] = @ + 1], n + 1,
                       [extra EXCEPT ![r] = @ - 1], lim,
                       IF n + 1 <= COUNTED_CARDS
                       THEN [cur EXCEPT ![r] = @ + 1] ELSE at5)

\* the calls of generate_tables whose recursion writes the node `ranks`
Writers(ranks, flush) ==
  { k \in { j \in 1..Len(Seeds) :
              /\ Seeds[j].lim.flush = flush
              /\ \A r \in 0..(RANK_COUNT - 1) : Seeds[j].ranks[r] <= ranks[r] } :
      Descend(Seeds[k].ranks, Seeds[k].n_cards,
              Nibbles([r \in 0..(RANK_COUNT - 1) |-> ranks[r] - Seeds[k].ranks[r]]),
              Seeds[k].lim, Seeds[k].ranks).ok }

\* the table entry of the node `ranks` of at most MAX_CARDS cards: what the
\* last call that reaches it wrote there
TableAt(ranks, flush) ==
  LET n == SumFn(ranks, 0..(RANK_COUNT - 1))
      w == Writers(ranks, flush)
  IN IF n < MIN_CARDS \/ n > MAX_CARDS \/ w = {} THEN 0
     ELSE LET s == Seeds[MaxOf(w)]
              key == get_key(Descend(s.ranks, s.n_cards,
                                     Nibbles([r \in 0..(RANK_COUNT - 1) |-> ranks[r] - s.ranks[r]]),
                                     s.lim, s.ranks).at5, flush)
          IN IF flush THEN flush_table[key] ELSE orig_lookup[key]

\* Evaluator::evaluate on the generated tables: rank_table[perf_hash(key)]
\* is orig_lookup[key] (calc_perfect_hash_offsets), and the key names the
\* rank multiset of the hand
EvaluatorEvaluate(h) ==
  IF HandHasFlush(h)
  THEN TableAt(RanksOf(HandFlushKey(h), 1), TRUE)
  ELSE TableAt(Nibbles([r \in 0..(RANK_COUNT - 1) |-> RankCount(h, r)]), FALSE)

(***************************************************************************)
(* calc_perfect_hash_offsets (gen_eval_table), one row of its placement    *)
(* loop at a time, and Evaluator::perf_hash.  A table is the function of   *)
(* its non-zero entries; a u32 is kept as two 16-bit limbs.  gen holds the *)
(* generator: phase (idle, place, done), orig_lookup, the sorted rows, the *)
(* number of rows placed, rank_table, perf_hash_offsets and max_idx.       *)
(***************************************************************************)
PERF_HASH_ROW_SHIFT == 12

\* x & PERF_HASH_COLUMN_MASK
Column(x) == x % (2 ^ PERF_HASH_ROW_SHIFT)

\* table[i] of a table kept as the function of its non-zero entries
ReadAt(table, i) == IF i \in DOMAIN table THEN table[i] ELSE 0

\* x as u32, for x an i32
AsU32(x) == [lo |-> x % LIMB, hi |-> (x \div LIMB) % LIMB]

\* Wrapping<u32> addition
WrappingAdd(a, b) ==
  [lo |-> (a.lo + b.lo) % LIMB,
   hi |-> (a.hi + b.hi + (a.lo + b.lo) \div LIMB) % LIMB]

\* a u32 as usize
AsUsize(a) == a.hi * LIMB + a.lo

\* perf_hash_offsets[row] of the vector that starts as zeros
OffsetAt(perf_hash_offsets, row) ==
  IF row \in DOMAIN perf_hash_offsets THEN perf_hash_offsets[row] ELSE AsU32(0)

\* Evaluator::perf_hash
perf_hash(perf_hash_offsets, key) ==
  AsUsize(WrappingAdd(AsU32(key),
                      OffsetAt(perf_hash_offsets, key \div (2 ^ PERF_HASH_ROW_SHIFT))))

\* the keys of a set in increasing order, as the scan `for i in 0..(MAX_KEY + 1)`
\* pushes them
RECURSIVE Ascending(_)
Ascending(S) ==
  IF S = {} THEN <<>> ELSE Append(Ascending(S \ {MaxOf(S)}), MaxOf(S))

\* the rows as the first loop leaves them: for every row index up to the
\* last populated one, the populated keys of the row in increasing order
RowsOf(orig) ==
  IF DOMAIN orig = {} THEN <<>>
  ELSE Flatten([j \in 1..(MaxOf(DOMAIN orig) \div (2 ^ PERF_HASH_ROW_SHIFT) + 1) |->
                  <<[idx |-> j - 1,
                     keys |-> Ascending({k \in DOMAIN orig :
                                k \div (2 ^ PERF_HASH_ROW_SHIFT) = j - 1})]>>],
               1, MaxOf(DOMAIN orig) \div (2 ^ PERF_HASH_ROW_SHIFT) + 1)

\* rows.sort_by(|a, b| b.1.len().cmp(&a.1.len())): longest first, rows of
\* one length in their former order
SortRows(rows) ==
  IF rows = <<>> THEN <<>>
  ELSE LET longest == MaxOf({Len(rows[j].keys) : j \in DOMAIN rows})
       IN Flatten([n \in 1..(longest + 1) |->
                     SelectSeq(rows, LAMBDA row : Len(row.keys) = longest + 1 - n)],
                  1, longest + 1)

\* the keys of a row all find their slot at this offset empty or holding
\* their value already
FitsFirstKey(rank_table, orig, keys, offset) ==
  keys # <<>> =>
    \/ ReadAt(rank_table, Column(keys[1]) + offset) = 0
    \/ ReadAt(rank_table, Column(keys[1]) + offset) = orig[keys[1]]

Fits(rank_table, orig, keys, offset) ==
  \A j \in DOMAIN keys :
    \/ ReadAt(rank_table, Column(keys[j]) + offset) = 0
    \/ ReadAt(rank_table, Column(keys[j]) + offset) = orig[keys[j]]

\* the loop over offset: the first offset that fits (no slot is taken
\* above max_idx)
FirstFit(g, keys) ==
  CHOOSE offset \in 0..(g.max_idx + 1) :
    /\ Fits(g.rank_table, g.orig_lookup, keys, offset)
    /\ \A o \in 0..(offset - 1) : ~Fits(g.rank_table, g.orig_lookup, keys, o)

\* the body of `for row in &rows`
PlaceAt(g, row, offset) ==
  [g EXCEPT
     !.placed = @ + 1,
     !.perf_hash_offsets =
        [r \in DOMAIN @ \cup {row.idx} |->
           IF r = row.idx
           THEN AsU32(offset - row.idx * (2 ^ PERF_HASH_ROW_SHIFT))
           ELSE @[r]],
     !.rank_table =
        [i \in DOMAIN @ \cup {Column(row.keys[j]) + offset : j \in DOMAIN row.keys} |->
           IF \E j \in DOMAIN row.keys : Column(row.keys[j]) + offset = i
           THEN g.orig_lookup[CHOOSE k \in {row.keys[j] : j \in DOMAIN row.keys} :
                                Column(k) + offset = i]
           ELSE @[i]],
     !.max_idx = IF row.keys = <<>> THEN @
                 ELSE Max(@, Column(row.keys[Len(row.keys)]) + offset)]

NoGen ==
  [phase |-> "idle", orig_lookup |-> <<>>, rows |-> <<>>, placed |-> 0,
   rank_table |-> <<>>, perf_hash_offsets |-> <<>>, max_idx |-> 0]

\* before remove_conflicting_combos is called
NoPrune == [phase |-> "idle", range |-> <<>>, board_mask |-> {}, hands |-> <<>>]

(***************************************************************************)
(* u64 counters.  A u64 is the sequence of its four 16-bit limbs, least    *)
(* significant first; an operation gives the wrapped result and whether    *)
(* the exact result is above u64::MAX.                                     *)
(***************************************************************************)
\* x as u64, for x below 2^31
U64(x) == <<x % LIMB, (x \div LIMB) % LIMB, 0, 0>>

\* a + b on u64
AddU64(a, b) ==
  LET s1 == a[1] + b[1]
      s2 == a[2] + b[2] + s1 \div LIMB
      s3 == a[3] + b[3] + s2 \div LIMB
      s4 == a[4] + b[4] + s3 \div LIMB
  IN [value |-> <<s1 % LIMB, s2 % LIMB, s3 % LIMB, s4 % LIMB>>,
      overflow |-> s4 \div LIMB # 0]

\* a * m on u64, for m below 2^15
MulU64(a, m) ==
  LET p1 == a[1] * m
      p2 == a[2] * m + p1 \div LIMB
      p3 == a[3] * m + p2 \div LIMB
      p4 == a[4] * m + p3 \div LIMB
  IN [value |-> <<p1 % LIMB, p2 % LIMB, p3 % LIMB, p4 % LIMB>>,
      overflow |-> p4 \div LIMB # 0]

\* `for c in &combo_weights { weight *= u64::from(*c) }` over the first k
\* entries, starting from 1
RECURSIVE WeightProduct(_, _)
WeightProduct(combo_weights, k) ==
  IF k = 0 THEN [value |-> U64(1), overflow |-> FALSE]
  ELSE LET rest == WeightProduct(combo_weights, k - 1)
           next == MulU64(rest.value, combo_weights[k])
       IN [value |-> next.value, overflow |-> rest.overflow \/ next.overflow]

\* before a worker starts
NoTotals ==
  [phase |-> "idle", n_players |-> 0, hands |-> <<>>, board |-> {}, winner_mask |-> 0,
   batch |-> [wins_by_mask |-> U64(0), eval_count |-> 0],
   results |-> [wins |-> U64(0), wins_by_mask |-> U64(0), eval_count |-> U64(0)],
   batch_count |-> 0, stopped |-> FALSE, exceeded |-> {}]

(***************************************************************************)
(* HandRange::from_string.  A text is the sequence of its chars; positions *)
(* count from 1.  Every call of add_combo pushes one Combo or none, so the *)
(* loops that call it are the concatenation of what the calls push.        *)
(***************************************************************************)
U8_MAX == 255

char_to_rank(c) ==
  CASE c = "a" -> 12 [] c = "k" -> 11 [] c = "q" -> 10 [] c = "j" -> 9
    [] c = "t" -> 8 [] c = "9" -> 7 [] c = "8" -> 6 [] c = "7" -> 5
    [] c = "6" -> 4 [] c = "5" -> 3 [] c = "4" -> 2 [] c = "3" -> 1
    [] c = "2" -> 0 [] OTHER -> U8_MAX

char_to_suit(c) ==
  CASE c = "s" -> 0 [] c = "h" -> 1 [] c = "d" -> 2 [] c = "c" -> 3
    [] OTHER -> U8_MAX

\* char::to_digit(10); -1 for None
to_digit(c) ==
  CASE c = "0" -> 0 [] c = "1" -> 1 [] c = "2" -> 2 [] c = "3" -> 3
    [] c = "4" -> 4 [] c = "5" -> 5 [] c = "6" -> 6 [] c = "7" -> 7
    [] c = "8" -> 8 [] c = "9" -> 9 [] OTHER -> -1

\* to_lowercase of one char
to_lowercase(c) ==
  CASE c = "A" -> "a" [] c = "K" -> "k" [] c = "Q" -> "q" [] c = "J" -> "j"
    [] c = "T" -> "t" [] c = "S" -> "s" [] c = "H" -> "h" [] c = "D" -> "d"
    [] c = "C" -> "c" [] c = "O" -> "o" [] OTHER -> c

\* HandRange::add_combo
add_combo(hands, c1, c2, weight) ==
  IF c1 > 51 \/ c2 > 51 THEN hands
  ELSE IF c1 = c2 THEN hands
  ELSE IF c1 \div 4 < c2 \div 4 \/ (c1 \div 4 = c2 \div 4 /\ c1 % 4 < c2 % 4)
       THEN Append(hands, <<c2, c1, weight>>)
       ELSE Append(hands, <<c1, c2, weight>>)

\* HandRange::add_combos: what it pushes
add_combos(rank1, rank2, suited, offsuited, weight) ==
  (IF suited /\ rank1 # rank2
   THEN Flatten([k \in 1..SUIT_COUNT |->
                   add_combo(<<>>, 4 * rank1 + (k - 1), 4 * rank2 + (k - 1), weight)],
                1, SUIT_COUNT)
   ELSE <<>>)
  \o (IF offsuited
      THEN Flatten([k \in 1..SUIT_COUNT |->
                      Flatten([j \in 1..SUIT_COUNT |->
                                 IF j <= k THEN <<>>
                                 ELSE add_combo(<<>>, 4 * rank1 + (k - 1),
                                                4 * rank2 + (j - 1), weight)
                                      \o (IF rank1 # rank2
                                          THEN add_combo(<<>>, 4 * rank1 + (j - 1),
                                                         4 * rank2 + (k - 1), weight)
                                          ELSE <<>>)],
                              1, SUIT_COUNT)],
                   1, SUIT_COUNT)
      ELSE <<>>)

\* HandRange::add_combos_plus: what it pushes
add_combos_plus(rank1, rank2, suited, offsuited, weight) ==
  IF rank1 = rank2
  THEN Flatten([r \in 1..RANK_COUNT |->
                  IF r - 1 >= rank1 THEN add_combos(r - 1, r - 1, suited, offsuited, weight)
                  ELSE <<>>],
               1, RANK_COUNT)
  ELSE Flatten([r \in 1..RANK_COUNT |->
                  IF r - 1 >= rank2 /\ r - 1 <= rank1
                  THEN add_combos(rank1, r - 1, suited, offsuited, weight)
                  ELSE <<>>],
               1, RANK_COUNT)

\* HandRange::add_all: what it pushes
add_all ==
  Flatten([c1 \in 1..CARD_COUNT |->
             Flatten([c2 \in 1..CARD_COUNT |->
                        IF c2 < c1 THEN add_combo(<<>>, c1 - 1, c2 - 1, 100) ELSE <<>>],
                     1, CARD_COUNT)],
          1, CARD_COUNT)

\* the loop of parse_weight from position i with `number` read so far
RECURSIVE ParseNumber(_, _, _)
ParseNumber(char_vec, i, number) ==
  IF to_digit(char_vec[i]) >= 0
  THEN ParseNumber(char_vec, i + 1, number * 10 + to_digit(char_vec[i]))
  ELSE [i |-> i, number |-> number]

\* HandRange::parse_weight: the position and the weight it leaves
parse_weight(char_vec, i, weight) ==
  LET read == ParseNumber(char_vec, i, 0)
  IN IF read.number > 100 THEN [ok |-> FALSE, i |-> i, weight |-> weight]
     ELSE [ok |-> TRUE, i |-> read.i, weight |-> read.number]

\* `if self.parse_char(i, '@') { self.parse_weight(i, &mut weight); }` with
\* weight = 100 before
WeightAt(char_vec, i) ==
  IF char_vec[i] = "@" THEN parse_weight(char_vec, i + 1, 100)
  ELSE [ok |-> TRUE, i |-> i, weight |-> 100]

\* HandRange::parse_hand: whether it read a hand, the position and the
\* hands it leaves
parse_hand(char_vec, i, hands) ==
  LET no == [ok |-> FALSE, i |-> i, hands |-> hands]
      r1 == char_to_rank(char_vec[i])
      explicit_suits == r1 # U8_MAX /\ char_to_suit(char_vec[i + 1]) # U8_MAX
      s1 == char_to_suit(char_vec[i + 1])
      at2 == IF explicit_suits THEN i + 2 ELSE i + 1
      r2 == char_to_rank(char_vec[at2])
      s2 == char_to_suit(char_vec[at2 + 1])
  IN IF r1 = U8_MAX THEN no
     ELSE IF r2 = U8_MAX THEN no
     ELSE IF explicit_suits
     THEN IF s2 = U8_MAX THEN no
          ELSE IF 4 * r1 + s1 = 4 * r2 + s2 THEN no
          ELSE LET w == WeightAt(char_vec, at2 + 2)
               IN [ok |-> TRUE, i |-> w.i,
                   hands |-> add_combo(hands, 4 * r1 + s1, 4 * r2 + s2, w.weight)]
     ELSE LET suited == char_vec[at2 + 1] # "o"
              offsuited == char_vec[at2 + 1] # "s"
              at3 == IF char_vec[at2 + 1] \in {"o", "s"} THEN at2 + 2 ELSE at2 + 1
              plus == char_vec[at3] = "+"
              w == WeightAt(char_vec, IF plus THEN at3 + 1 ELSE at3)
          IN [ok |-> TRUE, i |-> w.i,
              hands |-> hands \o (IF plus
                                  THEN add_combos_plus(r1, r2, suited, offsuited, w.weight)
                                  ELSE add_combos(r1, r2, suited, offsuited, w.weight))]

\* the order of Combo::cmp: first ranks, second ranks, first suits, second
\* suits
ComboOrder(c) ==
  ((c[1] \div 4) * RANK_COUNT + (c[2] \div 4)) * 16 + (c[1] % 4) * 4 + (c[2] % 4)

\* self.hands.sort(): stable
SortCombos(hands) ==
  LET place(k) == Cardinality({j \in DOMAIN hands :
                                 \/ ComboOrder(hands[j]) < ComboOrder(hands[k])
                                 \/ ComboOrder(hands[j]) = ComboOrder(hands[k]) /\ j < k}) + 1
  IN Flatten([p \in 1..Len(hands) |->
                <<hands[CHOOSE k \in DOMAIN hands : place(k) = p]>>],
             1, Len(hands))

\* self.hands.dedup(): Combo::eq compares the two cards
Dedup(hands) ==
  Flatten([k \in 1..Len(hands) |->
             IF k > 1 /\ hands[k][1] = hands[k - 1][1] /\ hands[k][2] = hands[k - 1][2]
             THEN <<>> ELSE <<hands[k]>>],
          1, Len(hands))

\* HandRange::remove_duplicates
remove_duplicates(hands) == Dedup(SortCombos(hands))

\* HandRange::new
NoParser ==
  [phase |-> "idle", text |-> <<>>, cards |-> <<>>, char_vec |-> <<>>, i |-> 1,
   hands |-> <<>>]

(***************************************************************************)
(* The tail of update_results: batch_sum, batch_sum2, batch_count, stdev   *)
(* and the stop flag.  A batch equity is a number of halves (0, 1/2, 1),   *)
(* so batch_sum is kept in halves and batch_sum2 in quarters; the f64      *)
(* operations are taken as exact.  stdev_target is given by its square:    *)
(* "fine" targets in units of 1e-10, "coarse" targets in sixteenths.       *)
(***************************************************************************)
\* 4 * batch_count * (batch_sum2 - batch_sum * batch_sum / batch_count)
Spread(sum, sum2, count) == count * sum2 - sum * sum

\* sqrt(max(0, sum2/count - (sum/count)^2)) / sqrt(count) < stdev_target,
\* that is batch_sum2 - batch_sum^2 / count < (stdev_target * count)^2
PlainStdevBelow(sum, sum2, count, target) ==
  IF target.kind = "fine"
  THEN Spread(sum, sum2, count) = 0 /\ 0 < target.square
  ELSE 4 * Spread(sum, sum2, count) < count * count * count * target.square

\* results.stdev < self.stdev_target with results.stdev =
\* (1e-9 + batch_sum2 - batch_sum * batch_sum / batch_count).sqrt() / batch_count,
\* that is 1e-9 + batch_sum2 - batch_sum^2 / count < (stdev_target * count)^2.
\* In units of 1e-10 / (4 * count) the two sides are
\* 40 * count + Spread * 10^10 and 4 * count^3 * square (fine, below 10^10),
\* and in units of 1 / (64 * count) they are
\* 16 * Spread + 64 * count * 1e-9 and 4 * count^3 * square (coarse, integers
\* but for the last term, which is below 1)
StdevBelow(sum, sum2, count, target) ==
  IF target.kind = "fine"
  THEN Spread(sum, sum2, count) = 0 /\ 40 * count < 4 * count * count * count * target.square
  ELSE 4 * Spread(sum, sum2, count) < count * count * count * target.square

\* SimulationResults::init and a cleared stop flag
NoGate ==
  [phase |-> "idle", calc_exact |-> FALSE, stdev_target |-> [kind |-> "fine", square |-> 0],
   batch_sum |-> 0, batch_sum2 |-> 0, batch_count |-> 0, stopped |-> FALSE,
   finished |-> FALSE, stored |-> FALSE]

(***************************************************************************)
(* SimulationResultsBatch and Simulator::evaluate_hands                    *)
(***************************************************************************)
\* SimulationResultsBatch::init
BatchInit(n) ==
  [wins_by_mask |-> [i \in 0..(2 ^ n - 1) |-> 0],
   player_ids |-> [i \in 0..(n - 1) |-> i],
   eval_count |-> 0]

RECURSIVE WinnerMaskFirst(_, _, _, _, _, _, _)
\* a scoring loop that keeps only the first player with the best score
WinnerMaskFirst(hands, n, board, fp, i, best, wm) ==
  IF i >= n THEN wm
  ELSE LET hand == HandAdd(board, hands[i])
           score == IF fp THEN evaluate(hand) ELSE evaluate_without_flush(hand)
       IN IF score > best
          THEN WinnerMaskFirst(hands, n, board, fp, i + 1, score, 2 ^ i)
          ELSE WinnerMaskFirst(hands, n, board, fp, i + 1, best, wm)

RECURSIVE WinnerMask(_, _, _, _, _, _, _)
\* the scoring loop of evaluate_hands from player i on: best_score and
\* winner_mask so far are best and wm
WinnerMask(hands, n, board, fp, i, best, wm) ==
  IF i >= n THEN wm
  ELSE LET hand == HandAdd(board, hands[i])
           score == IF fp THEN evaluate(hand) ELSE evaluate_without_flush(hand)
       IN IF score > best
          THEN WinnerMask(hands, n, board, fp, i + 1, score, 2 ^ i)
          ELSE IF score = best
          THEN WinnerMask(hands, n, board, fp, i + 1, best,
                          IF Bit(wm, i) = 1 THEN wm ELSE wm + 2 ^ i)
          ELSE WinnerMask(hands, n, board, fp, i + 1, best, wm)

\* Simulator::evaluate_hands
evaluate_hands(hands, n, weight, board, results, fp) ==
  LET wm == WinnerMask(hands, n, board, fp, 0, 0, 0)
  IN [results EXCEPT !.wins_by_mask[wm] = @ + weight,
                     !.eval_count = @ + 1]

(***************************************************************************)
(* Board enumeration (enumerate_board, enumerate_board_rec).  The state    *)
(* threaded through the recursion is es = [stats, deck]: the batch and the *)
(* deck array, which the code swaps in place.  When es.keep is set, es     *)
(* also records every call of evaluate_hands in es.shapes: the board it    *)
(* was given, its weight, its flush_possible and the groups of same-rank   *)
(* cards that the board stands for (es.path holds the groups of the        *)
(* enclosing calls; a group is the grouped cards and the ones put on the   *)
(* board).                                                                 *)
(***************************************************************************)
BINOM_COEFF ==
  [n \in 0..4 |-> [k \in 0..4 |->
     CASE n = 0 -> 0
       [] n = 1 -> IF k = 1 THEN 1 ELSE 0
       [] n = 2 -> IF k = 0 THEN 1 ELSE IF k = 1 THEN 2 ELSE IF k = 2 THEN 1 ELSE 0
       [] n = 3 -> IF k = 0 THEN 1 ELSE IF k = 1 THEN 3 ELSE IF k = 2 THEN 3
                   ELSE IF k = 3 THEN 1 ELSE 0
       [] n = 4 -> IF k = 0 THEN 1 ELSE IF k = 1 THEN 4 ELSE IF k = 2 THEN 6
                   ELSE IF k = 3 THEN 4 ELSE 1]]

\* deck.swap(a, b) on the array deck[0..]
Swap(deck, a, b) ==
  [k \in DOMAIN deck |-> IF k = a THEN deck[b] ELSE IF k = b THEN deck[a] ELSE deck[k]]

RECURSIVE RunLength(_, _, _, _)
\* number of deck entries from i on that have rank `rank`, up to the first
\* entry of another rank
RunLength(deck, n_deck, i, rank) ==
  IF i < n_deck /\ RankOf(deck[i]) = rank
  THEN 1 + RunLength(deck, n_deck, i + 1, rank)
  ELSE 0

\* the entries after i of the same rank, whatever their suit
LiveRunAnySuit(deck, n_deck, sc, j, rank) == RunLength(deck, n_deck, j, rank)

RECURSIVE LiveRun(_, _, _, _, _)
\* the inner loop of the last-card branch with a live flush suit: entries
\* after i of the same rank whose suit count is below 4
LiveRun(deck, n_deck, sc, j, rank) ==
  IF j < n_deck /\ RankOf(deck[j]) = rank
  THEN (IF sc[SuitOf(deck[j])] < 4 THEN 1 ELSE 0)
         + LiveRun(deck, n_deck, sc, j + 1, rank)
  ELSE 0

\* the deck entries i .. i + len - 1
DeckCards(deck, i, len) == {deck[j] : j \in i..(i + len - 1)}

\* the deck entries of the run of `rank` from i on whose suit count is
\* below 4
LiveCards(deck, n_deck, sc, i, rank) ==
  {c \in DeckCards(deck, i, RunLength(deck, n_deck, i, rank)) : sc[SuitOf(c)] < 4}

\* a call of evaluate_hands of the enumeration, on new_board with a weight
\* that stands for the boards of `group` as well
Leaf(es, hands, n, weight, new_board, fp, group) ==
  [es EXCEPT !.stats = evaluate_hands(hands, n, weight, new_board, @, fp),
             !.shapes = IF es.keep
                        THEN Append(@, [board |-> new_board, weight |-> weight,
                                        flush_possible |-> fp,
                                        groups |-> es.path \o group])
                        ELSE @]

RECURSIVE Regroup(_, _, _, _, _, _, _)
\* the grouping loop of enumerate_board_rec: moves the suit-irrelevant cards
\* of the rank of deck[i] next to i; returns [deck, count]
Regroup(deck, n_deck, sc, cr, i, j, irr) ==
  IF j >= n_deck \/ RankOf(deck[j]) # RankOf(deck[i])
  THEN [deck |-> deck, count |-> irr]
  ELSE IF sc[SuitOf(deck[j])] + cr < 5
  THEN Regroup(IF j # i + irr THEN Swap(deck, j, i + irr) ELSE deck,
               n_deck, sc, cr, i, j + 1, irr + 1)
  ELSE Regroup(deck, n_deck, sc, cr, i, j + 1, irr)

RECURSIVE enumerate_board_rec(_, _, _, _, _, _, _, _, _)
RECURSIVE LastCardPlain(_, _, _, _, _, _, _)
RECURSIVE LastCardLive(_, _, _, _, _, _, _, _, _)
RECURSIVE CardLoop(_, _, _, _, _, _, _, _, _)
RECURSIVE Repeats(_, _, _, _, _, _, _, _, _, _, _)

\* cards_remaining = 1, no suit can still make a flush
LastCardPlain(hands, n, es, board, n_deck, i, weight) ==
  IF i >= n_deck THEN es
  ELSE LET rank == RankOf(es.deck[i])
           mult == RunLength(es.deck, n_deck, i, rank)
           nb == HandAdd(board, CardHand(es.deck[i]))
       IN LastCardPlain(hands, n,
            Leaf(es, hands, n, weight * mult, nb, FALSE,
                 <<[cards |-> DeckCards(es.deck, i, mult), chosen |-> {es.deck[i]}]>>),
            board, n_deck, i + mult, weight)

\* cards_remaining = 1, some suit can still make a flush
LastCardLive(hands, n, es, board, n_deck, sc, i, last_rank, weight) ==
  IF i >= n_deck THEN es
  ELSE LET c == es.deck[i]
           dead == sc[SuitOf(c)] < 4
       IN IF dead /\ RankOf(c) = last_rank
          THEN LastCardLive(hands, n, es, board, n_deck, sc, i + 1, last_rank, weight)
          ELSE LET mult == IF dead
                           THEN 1 + LiveRun(es.deck, n_deck, sc, i + 1, RankOf(c))
                           ELSE 1
                   nb == HandAdd(board, CardHand(c))
               IN LastCardLive(hands, n,
                    Leaf(es, hands, n, weight * mult, nb, TRUE,
                         IF dead
                         THEN <<[cards |-> LiveCards(es.deck, n_deck, sc, i, RankOf(c)),
                                 chosen |-> {c}]>>
                         ELSE <<>>),
                    board, n_deck, sc, i + 1,
                    IF dead THEN RankOf(c) ELSE last_rank, weight)

\* the `for repeats in 1..=min(irrelevant_count, cards_remaining)` loop
Repeats(hands, n, es, nb, n_deck, sc, cr, i, irr, rep, weight) ==
  IF rep > Min(irr, cr) THEN es
  ELSE LET new_weight == BINOM_COEFF[irr][rep] * weight
           nb2 == HandAdd(nb, CardHand(es.deck[i + rep - 1]))
           group == [cards |-> DeckCards(es.deck, i, irr),
                     chosen |-> DeckCards(es.deck, i, rep)]
           es1 == IF es.keep THEN [es EXCEPT !.path = Append(@, group)] ELSE es
           es2 == IF rep = cr
                  THEN Leaf(es1, hands, n, new_weight, nb2, TRUE, <<>>)
                  ELSE enumerate_board_rec(hands, n, es1, nb2, n_deck, sc,
                                           cr - rep, i + irr, new_weight)
       IN Repeats(hands, n, [es2 EXCEPT !.path = es.path], nb2, n_deck, sc, cr, i, irr,
                  rep + 1, weight)

\* the `while i < n_deck` loop of enumerate_board_rec, cards_remaining > 1
CardLoop(hands, n, es, board, n_deck, sc, cr, i, weight) ==
  IF i >= n_deck THEN es
  ELSE LET suit == SuitOf(es.deck[i])
       IN IF sc[suit] + cr < 5
          THEN LET g == Regroup(es.deck, n_deck, sc, cr, i, i + 1, 1)
                   es1 == [es EXCEPT !.deck = g.deck]
                   es2 == Repeats(hands, n, es1, board, n_deck, sc, cr, i,
                                  g.count, 1, weight)
               IN CardLoop(hands, n, es2, board, n_deck, sc, cr, i + g.count, weight)
          ELSE LET nb == HandAdd(board, CardHand(es.deck[i]))
                   es2 == enumerate_board_rec(hands, n, es, nb, n_deck,
                            [sc EXCEPT ![suit] = @ + 1], cr - 1, i + 1, weight)
               IN CardLoop(hands, n, es2, board, n_deck, sc, cr, i + 1, weight)

\* Simulator::enumerate_board_rec
enumerate_board_rec(hands, n, es, board, n_deck, sc, cr, start, weight) ==
  IF cr = 1
  THEN IF \A s \in 0..3 : sc[s] < 4
       THEN LastCardPlain(hands, n, es, board, n_deck, start, weight)
       ELSE LastCardLive(hands, n, es, board, n_deck, sc, start, 255, weight)
  ELSE CardLoop(hands, n, es, board, n_deck, sc, cr, start, weight)

RECURSIVE DeckOf(_, _)
\* the deck of enumerate_board: the unused cards from 51 down to 0, as a
\* sequence built from card c downwards
DeckOf(used, c) ==
  IF c < 0 THEN <<>>
  ELSE (IF c \in used THEN <<>> ELSE <<c>>) \o DeckOf(used, c - 1)

\* suit counts of the board alone
SuitCountsOfBoard(player_hands, n, board) ==
  [s \in 0..3 |-> HandSuitCount(board, s)]

\* the suit_counts of enumerate_board: per suit the largest number of cards
\* one player holds in it, plus the board's cards of the suit
SuitCounts(player_hands, n, board) ==
  [s \in 0..3 |->
     (IF \E i \in 0..(n - 1) : SuitOf(player_hands[i][1]) = s
                               /\ SuitOf(player_hands[i][2]) = s
      THEN 2
      ELSE IF \E i \in 0..(n - 1) : SuitOf(player_hands[i][1]) = s
                                    \/ SuitOf(player_hands[i][2]) = s
      THEN 1 ELSE 0)
     + HandSuitCount(board, s)]

\* Simulator::enumerate_board with the calls of evaluate_hands recorded
\* when keep is set; player_hands[i] = <<card, card, weight>>
EnumerateBoard(player_hands, n, weight, board, used_cards_mask, stats, keep) ==
  LET hands == [i \in 0..(n - 1) |->
                  HandFromHoleCards(player_hands[i][1], player_hands[i][2])]
      cards_remaining == BOARD_CARDS - HandCount(board)
      d == DeckOf(used_cards_mask, CARD_COUNT - 1)
      deck == [i \in 0..(Len(d) - 1) |-> d[i + 1]]
      es == [stats |-> stats, deck |-> deck, keep |-> keep, path |-> <<>>,
             shapes |-> <<>>]
  IN IF cards_remaining = 0
     THEN Leaf(es, hands, n, weight, board, TRUE, <<>>)
     ELSE enumerate_board_rec(hands, n, es, board,
                              Len(d), SuitCounts(player_hands, n, board),
                              cards_remaining, 0, weight)

\* Simulator::enumerate_board
enumerate_board(player_hands, n, weight, board, used_cards_mask, stats) ==
  EnumerateBoard(player_hands, n, weight, board, used_cards_mask, stats, FALSE).stats

\* before a call of enumerate_board
NoBoard ==
  [phase |-> "idle", player_hands |-> <<>>, n_players |-> 0, weight |-> 0,
   board |-> {}, stats |-> BatchInit(0), shapes |-> <<>>]


(***************************************************************************)
(* Ranges.  A HandRange is the sequence of its combos <<card, card,        *)
(* weight>>; a Combo of a CombinedRange keeps its mask and its hole_cards  *)
(* slots (its hands slots are Hand::from_hole_cards of the same slots and  *)
(* are recomputed where they are read).                                    *)
(***************************************************************************)

\* the bit mask (1 << r.0) | (1 << r.1) as a set of cards
ComboMask(r) == {r[1], r[2]}

\* retain on the first card of a combo alone
RetainFirstCardFree(hands, board_mask) ==
  SelectSeq(hands, LAMBDA x : x[1] \notin board_mask)

\* HandRange::remove_conflicting_combos: Vec::retain keeps the order
RECURSIVE remove_conflicting_combos(_, _)
remove_conflicting_combos(hands, board_mask) ==
  IF hands = <<>> THEN <<>>
  ELSE (IF ComboMask(Head(hands)) \cap board_mask = {} THEN <<Head(hands)>> ELSE <<>>)
       \o remove_conflicting_combos(Tail(hands), board_mask)

\* Combo::new: every hole_cards slot is (52, 52, 0)
ComboNew == [mask |-> {}, hole_cards |-> [i \in 0..(MAX_PLAYERS - 1) |-> <<CARD_COUNT, CARD_COUNT, 0>>]]

\* CombinedRange::default
CombinedRangeDefault ==
  [player_count |-> 0, players |-> [i \in 0..(MAX_PLAYERS - 1) |-> 0], combos |-> <<>>]

\* CombinedRange::size (the size field is combos.len() wherever it is set)
size(cr) == Len(cr.combos)

\* CombinedRange::from_range
from_range(range, player_idx) ==
  [player_count |-> 1,
   players |-> [CombinedRangeDefault.players EXCEPT ![0] = player_idx],
   combos |-> [k \in 1..Len(range) |->
                 [mask |-> ComboMask(range[k]),
                  hole_cards |-> [ComboNew.hole_cards EXCEPT ![0] = range[k]]]]]

\* an estimate that counts every pair of combos
EstimateProduct(a, b) == size(a) * size(b)

\* CombinedRange::estimate_join_size
estimate_join_size(a, b) ==
  Cardinality({<<i, j>> \in (1..size(a)) \X (1..size(b)) :
                 a.combos[i].mask \cap b.combos[j].mask = {}})

\* the combo pushed by join for c1 of self (a) and c2 of other (b)
JoinCombo(a, b, c1, c2) ==
  [mask |-> c1.mask \cup c2.mask,
   hole_cards |->
     [s \in 0..(MAX_PLAYERS - 1) |->
        IF s < a.player_count THEN c1.hole_cards[s]
        ELSE IF s < a.player_count + b.player_count
             THEN c2.hole_cards[s - a.player_count]
             ELSE ComboNew.hole_cards[s]]]

\* the two loops of join without the test of the masks
JoinPairsAll(a, b) ==
  [p \in 1..(size(a) * size(b)) |->
     <<((p - 1) \div size(b)) + 1, ((p - 1) % size(b)) + 1>>]

\* the two loops of join: the pairs (index in a, index in b) in the order
\* of the loops, those that share a card skipped
JoinPairs(a, b) ==
  SelectSeq([p \in 1..(size(a) * size(b)) |->
               <<((p - 1) \div size(b)) + 1, ((p - 1) % size(b)) + 1>>],
            LAMBDA pr : a.combos[pr[1]].mask \cap b.combos[pr[2]].mask = {})

JoinCombos(a, b, kept) ==
  [k \in 1..Len(kept) |-> JoinCombo(a, b, a.combos[kept[k][1]], b.combos[kept[k][2]])]

\* CombinedRange::join (self = a, other = b)
join(a, b) ==
  [player_count |-> a.player_count + b.player_count,
   players |-> [s \in 0..(MAX_PLAYERS - 1) |->
                  IF s < a.player_count THEN a.players[s]
                  ELSE IF s < a.player_count + b.player_count
                       THEN b.players[s - a.player_count]
                       ELSE 0],
   combos |-> JoinCombos(a, b, JoinPairs(a, b))]

\* the pair scan of one round of from_ranges: pairs (i, j), j < i, in the
\* order of the two loops (0-based); the first strictly smallest estimate wins
PairsInOrder(n) ==
  LET RECURSIVE Rows(_)
      Rows(i) == IF i >= n THEN <<>>
                 ELSE [j \in 1..i |-> <<i, j - 1>>] \o Rows(i + 1)
  IN Rows(0)

RECURSIVE BestPair(_, _, _, _)
BestPair(c_ranges, pairs, k, best) ==
  IF k > Len(pairs) THEN best
  ELSE LET i == pairs[k][1]
           j == pairs[k][2]
           s == estimate_join_size(c_ranges[i + 1], c_ranges[j + 1])
       IN BestPair(c_ranges, pairs, k + 1,
                   IF best.none \/ s < best.size
                   THEN [none |-> FALSE, size |-> s, i |-> i, j |-> j]
                   ELSE best)

\* the loop of from_ranges: join the best pair into slot best_j, remove best_i
RECURSIVE JoinLoop(_)
JoinPair(c_ranges, best) ==
  IF ~best.none /\ best.size < MAX_SIZE
  THEN JoinLoop(SubSeq(c_ranges, 1, best.j)
                \o <<join(c_ranges[best.j + 1], c_ranges[best.i + 1])>>
                \o SubSeq(c_ranges, best.j + 2, best.i)
                \o SubSeq(c_ranges, best.i + 2, Len(c_ranges)))
  ELSE c_ranges

JoinLoop(c_ranges) ==
  JoinPair(c_ranges, BestPair(c_ranges, PairsInOrder(Len(c_ranges)), 1,
                              [none |-> TRUE, size |-> 0, i |-> 0, j |-> 0]))

\* CombinedRange::from_ranges
from_ranges(ranges) ==
  JoinLoop([k \in 1..Len(ranges) |-> from_range(ranges[k], k - 1)])


(***************************************************************************)
(* The Simulator: sizes, the flat enumeration index and the per-index      *)
(* body of enumerate_all.                                                  *)
(***************************************************************************)

\* Simulator::get_preflop_combo_count over the sizes of the combined ranges
RECURSIVE get_preflop_combo_count(_)
get_preflop_combo_count(sizes) ==
  IF sizes = <<>> THEN 1 ELSE Head(sizes) * get_preflop_combo_count(Tail(sizes))

\* Simulator::get_postflop_combo_count: the product, then the divisions
get_postflop_combo_count(board_count, n_players) ==
  LET cards_in_deck == CARD_COUNT - board_count - 2 * n_players
      board_cards_remaining == 5 - board_count
      RECURSIVE Mul(_, _)
      Mul(i, acc) == IF i >= board_cards_remaining THEN acc
                     ELSE Mul(i + 1, acc * (cards_in_deck - i))
      RECURSIVE Div(_, _)
      Div(i, acc) == IF i >= board_cards_remaining THEN acc
                     ELSE Div(i + 1, acc \div (i + 1))
  IN Div(0, Mul(0, 1))

\* use_lookup of enumerate_all
UseLookup(postflop_combos) == postflop_combos > LOOKUP_THRESHOLD

\* batch_size of enumerate_all
BatchSize(postflop_combos) == Max(RESERVE_WORK \div postflop_combos, 1)

\* HandWithIndex::default
HandWithIndexDefault == [cards |-> <<CARD_COUNT, CARD_COUNT, 100>>, player_idx |-> 0]

\* the loop of enumerate_all over the combined ranges for one flat index:
\* quotient and remainder per range, the conflict test, and the copy of the
\* combo's slots into player_hands (the slot read is hole_cards[player_idx])
RECURSIVE AssignHands(_, _, _, _, _)
AssignHands(crs, i, rand_enum_pos, used_cards_mask, player_hands) ==
  IF i > Len(crs) THEN [ok |-> TRUE, used |-> used_cards_mask, hands |-> player_hands]
  ELSE LET quotient == rand_enum_pos \div size(crs[i])
           remainder == rand_enum_pos - quotient * size(crs[i])
           combo == crs[i].combos[remainder + 1]
           RECURSIVE Copy(_, _)
           Copy(j, ph) ==
             IF j >= crs[i].player_count THEN ph
             ELSE LET player_idx == crs[i].players[j]
                  IN Copy(j + 1, [ph EXCEPT ![player_idx] =
                                    [cards |-> combo.hole_cards[player_idx],
                                     player_idx |-> player_idx]])
       IN IF used_cards_mask \cap combo.mask # {}
          THEN [ok |-> FALSE, used |-> used_cards_mask, hands |-> player_hands]
          ELSE AssignHands(crs, i + 1, quotient, used_cards_mask \cup combo.mask,
                           Copy(0, player_hands))

\* weight of enumerate_all: the product of the players' weights
RECURSIVE WeightOf(_, _)
WeightOf(player_hands, n) ==
  IF n = 0 THEN 1 ELSE player_hands[n - 1].cards[3] * WeightOf(player_hands, n - 1)

\* Ord for HandWithIndex: -1, 0, 1
cmp(a, b) ==
  LET k1 == <<a.cards[1] \div 4, a.cards[2] \div 4, a.cards[1] % 4, a.cards[2] % 4>>
      k2 == <<b.cards[1] \div 4, b.cards[2] \div 4, b.cards[1] % 4, b.cards[2] % 4>>
      RECURSIVE Lex(_)
      Lex(i) == IF i > 4 THEN 0
                ELSE IF k1[i] < k2[i] THEN -1
                ELSE IF k1[i] > k2[i] THEN 1
                ELSE Lex(i + 1)
  IN Lex(1)

\* player_hands[0..n_players].sort(): a stable sort by cmp
RECURSIVE SortHands(_, _)
SortHands(player_hands, n) ==
  IF n <= 1 THEN player_hands
  ELSE LET ph == SortHands(player_hands, n - 1)
           x == ph[n - 1]
           \* number of sorted elements that stay in front of x
           k == Cardinality({i \in 0..(n - 2) : cmp(ph[i], x) <= 0})
       IN [i \in DOMAIN ph |->
             IF i < k \/ i >= n THEN ph[i]
             ELSE IF i = k THEN x
             ELSE ph[i - 1]]

\* one step of the suit renaming of transform_suits
SuitStep(tr, suit) ==
  IF tr.transform[suit] = 255
  THEN [transform |-> [tr.transform EXCEPT ![suit] = tr.suit_count],
        suit_count |-> tr.suit_count + 1, board |-> tr.board]
  ELSE tr

RECURSIVE TransformBoard(_, _, _)
TransformBoard(board_mask, i, tr) ==
  IF i >= CARD_COUNT THEN tr
  ELSE IF i \in board_mask
       THEN LET t == SuitStep(tr, i % 4)
            IN TransformBoard(board_mask, i + 1,
                              [t EXCEPT !.board = @ \cup {(i - (i % 4)) + t.transform[i % 4]}])
       ELSE TransformBoard(board_mask, i + 1, tr)

RECURSIVE TransformHands(_, _, _, _)
TransformHands(player_hands, n, i, tr) ==
  IF i >= n THEN [hands |-> player_hands, tr |-> tr]
  ELSE LET c == player_hands[i].cards
           t1 == SuitStep(tr, c[1] % 4)
           n1 == (c[1] - (c[1] % 4)) + t1.transform[c[1] % 4]
           t2 == SuitStep(t1, c[2] % 4)
           n2 == (c[2] - (c[2] % 4)) + t2.transform[c[2] % 4]
       IN TransformHands([player_hands EXCEPT ![i].cards = <<n1, n2, c[3]>>], n, i + 1, t2)

\* Simulator::transform_suits: the board first, then the hands in order
transform_suits(player_hands, n_players, board_mask) ==
  LET tb == TransformBoard(board_mask, 0,
                           [transform |-> [s \in 0..3 |-> 255], suit_count |-> 0,
                            board |-> {}])
      th == TransformHands(player_hands, n_players, 0, tb)
  IN [hands |-> th.hands, board_mask |-> tb.board, suit_count |-> th.tr.suit_count]

\* id * 1327 + t on the u64 written in base 1327 (least digit first)
RECURSIVE MulAdd1327(_, _)
MulAdd1327(digits, t) ==
  IF t < 1327 THEN <<t>> \o digits
  ELSE LET RECURSIVE AddAt(_, _)
           AddAt(ds, carry) ==
             IF carry = 0 THEN ds
             ELSE IF ds = <<>> THEN <<carry % 1327>> \o AddAt(<<>>, carry \div 1327)
             ELSE <<(Head(ds) + carry) % 1327>>
                  \o AddAt(Tail(ds), (Head(ds) + carry) \div 1327)
       IN <<t % 1327>> \o AddAt(digits, t \div 1327)

\* calculate_preflop_id; the u64 is kept as its base-1327 digits
RECURSIVE PreflopDigits(_, _, _, _)
PreflopDigits(player_hands, n_players, i, digits) ==
  IF i >= n_players THEN digits
  ELSE LET c0 == Max(player_hands[i].cards[1], player_hands[i].cards[2])
           c1 == Min(player_hands[i].cards[1], player_hands[i].cards[2])
       IN PreflopDigits(player_hands, n_players, i + 1,
                        MulAdd1327(digits, ((c0 * (c0 - 1)) \div 2) + c1 + 1))

\* an id made of the first hand only
PreflopIdFirstHand(player_hands, n_players) ==
  PreflopDigits(player_hands, 1, 0, <<>>)

calculate_preflop_id(player_hands, n_players) ==
  PreflopDigits(player_hands, n_players, 0, <<>>)


\* one flat index of enumerate_all up to the board enumeration.  ok: the
\* selected combos are disjoint; panics: a hole card read from an unset slot
\* is 52, so Hand::from_hole_cards indexes CARDS out of bounds; ids, key:
\* player_ids after the sort and the lookup key (lookup mode); stats: the
\* batch that enumerate_board fills from a fresh batch.
IndexWork(crs, board_mask, n_players, use_lookup, idx) ==
  LET a == AssignHands(crs, 1, idx, board_mask,
                       [i \in 0..(MAX_PLAYERS - 1) |-> HandWithIndexDefault])
      weight == WeightOf(a.hands, n_players)
      sorted == SortHands(a.hands, n_players)
      ids == [i \in 0..(n_players - 1) |->
                IF use_lookup THEN sorted[i].player_idx ELSE i]
      t == transform_suits(sorted, n_players, board_mask)
      ph == IF use_lookup THEN t.hands ELSE a.hands
      board == IF use_lookup THEN t.board_mask ELSE board_mask
      used == IF use_lookup
              THEN board \cup UNION {{ph[j].cards[1], ph[j].cards[2]} : j \in 0..(n_players - 1)}
              ELSE a.used
      panics == \E j \in 0..(n_players - 1) :
                   ph[j].cards[1] >= CARD_COUNT \/ ph[j].cards[2] >= CARD_COUNT
      fresh == [BatchInit(n_players) EXCEPT !.player_ids = ids]
  IN IF ~a.ok
     THEN [ok |-> FALSE, panics |-> FALSE, weight |-> 0, ids |-> fresh.player_ids,
           key |-> <<>>, stats |-> fresh]
     ELSE [ok |-> TRUE, panics |-> panics, weight |-> weight, ids |-> ids,
           key |-> IF use_lookup THEN <<calculate_preflop_id(ph, n_players), weight>>
                   ELSE <<>>,
           stats |-> IF panics THEN fresh
                     ELSE enumerate_board([j \in 0..(n_players - 1) |-> ph[j].cards],
                                          n_players, weight, HandFromCards(board),
                                          used, fresh)]

(***************************************************************************)
(* SimulationResults: init, update_results, get_equity.  ties is an f64    *)
(* that only ever receives integers (the quotient is taken on u64 before   *)
(* the cast), so it is kept as an integer.                                 *)
(***************************************************************************)
\* SimulationResults::init
ResultsInit(n) ==
  [wins |-> [p \in 0..(n - 1) |-> 0],
   ties |-> [p \in 0..(n - 1) |-> 0],
   wins_by_mask |-> [i \in 0..(2 ^ n - 1) |-> 0],
   eval_count |-> 0,
   batch_count |-> 0]

\* the share added to ties for one tied player: (wins_by_mask[i] / winner_count) as f64
TieShare(mass, winner_count) == mass \div winner_count

\* actual_player_mask of update_results for the batch mask i
ActualMask(player_ids, n, i) ==
  LET ps == {player_ids[j] : j \in {k \in 0..(n - 1) : Bit(i, k) = 1}}
  IN SumFn([p \in ps |-> 2 ^ p], ps)

\* the loop of update_results over the batch masks from i on:
\* wins_by_mask[actual_player_mask] += batch.wins_by_mask[i]
RECURSIVE MoveMass(_, _, _, _)
MoveMass(wins_by_mask, batch, n, i) ==
  IF i \notin DOMAIN wins_by_mask THEN wins_by_mask
  ELSE MoveMass([wins_by_mask EXCEPT ![ActualMask(batch.player_ids, n, i)] =
                   @ + batch.wins_by_mask[i]],
                batch, n, i + 1)

\* Simulator::update_results: the accumulators after merging batch
update_results(results, batch, n, calc_exact) ==
  LET masks == 0..(2 ^ n - 1)
      slots(p, i) == {j \in 0..(n - 1) : Bit(i, j) = 1 /\ batch.player_ids[j] = p}
      won(p) == SumFn([i \in masks |->
                         IF PopCount(i) = 1
                         THEN Cardinality(slots(p, i)) * batch.wins_by_mask[i] ELSE 0],
                      masks)
      tied(p) == SumFn([i \in masks |->
                          IF PopCount(i) > 1
                          THEN Cardinality(slots(p, i))
                               * TieShare(batch.wins_by_mask[i], PopCount(i))
                          ELSE 0],
                       masks)
  IN [wins |-> [p \in 0..(n - 1) |-> results.wins[p] + won(p)],
      ties |-> [p \in 0..(n - 1) |-> results.ties[p] + tied(p)],
      wins_by_mask |-> MoveMass(results.wins_by_mask, batch, n, 0),
      eval_count |-> results.eval_count + batch.eval_count,
      batch_count |-> IF calc_exact THEN results.batch_count
                      ELSE results.batch_count + 1]

\* SimulationResults::get_equity: each equity as the pair <<numerator,
\* equity_sum>>; the f64 quotient is NaN when equity_sum is 0
get_equity(results) ==
  LET n == Cardinality(DOMAIN results.wins)
      equity == [p \in 0..(n - 1) |-> results.wins[p] + results.ties[p]]
      equity_sum == SumFn(equity, 0..(n - 1))
  IN [p \in 0..(n - 1) |-> <<equity[p], equity_sum>>]


\* Simulator::reserve_batch under the enum_pos mutex: the interval handed
\* out and the new value of the shared cursor
reserve_batch(cursor, batch_size, total_batch_count) ==
  LET start == cursor
      end == Min(total_batch_count, cursor + batch_size)
  IN [start |-> start, end |-> end, enum_pos |-> end]

\* the tail of update_results: the stop flag is raised only in Monte Carlo
\* mode, by a non-final merge whose stdev estimate is below the target
StopGate(calc_exact, finished, below_target) ==
  ~calc_exact /\ ~finished /\ below_target

\* variant of CheckArgs that tests the board before the number of ranges
CheckArgsBoardFirst(n_ranges, board_count) ==
  IF board_count > BOARD_CARDS THEN "TooManyBoardCards"
  ELSE IF n_ranges < MIN_PLAYERS THEN "TooFewPlayers"
  ELSE IF n_ranges > MAX_PLAYERS THEN "TooManyPlayers"
  ELSE ""

\* the argument checks at the head of exact_equity and approx_equity, in
\* the order of the code; "" when all pass
CheckArgs(n_ranges, board_count) ==
  IF n_ranges < MIN_PLAYERS THEN "TooFewPlayers"
  ELSE IF n_ranges > MAX_PLAYERS THEN "TooManyPlayers"
  ELSE IF board_count > BOARD_CARDS THEN "TooManyBoardCards"
  ELSE ""

\* variant of HasEmptyRange that skips the test of the sizes
HasEmptyRangeSkipped(crs) == Len(crs) < 0

\* the test `cr.size() == 0` over the combined ranges
HasEmptyRange(crs) == \E k \in 1..Len(crs) : size(crs[k]) = 0

\* hand_ranges.iter_mut().for_each(|h| h.remove_conflicting_combos(board_mask))
Prune(ranges, board_mask) ==
  [k \in 1..Len(ranges) |-> remove_conflicting_combos(ranges[k], board_mask)]

\* one Monte Carlo trial with the combined ranges' selected combos
\* combo_indexes (0-based): player_hands[players[j]] = combo.hands[j],
\* combo_weights[players[j]] = combo.hole_cards[j].2, then evaluate_hands
\* on the full board into a fresh batch
McTrial(crs, board_mask, n_players, combo_indexes) ==
  LET slot(p) == CHOOSE x \in {y \in (1..Len(crs)) \X (0..(MAX_PLAYERS - 1)) :
                                 y[2] < crs[y[1]].player_count
                                 /\ crs[y[1]].players[y[2]] = p} : TRUE
      hc(p) == crs[slot(p)[1]].combos[combo_indexes[slot(p)[1]] + 1].hole_cards[slot(p)[2]]
      hands == [p \in 0..(n_players - 1) |-> HandFromHoleCards(hc(p)[1], hc(p)[2])]
      weights == [p \in 0..(n_players - 1) |-> hc(p)[3]]
      RECURSIVE Prod(_)
      Prod(k) == IF k = 0 THEN 1 ELSE weights[k - 1] * Prod(k - 1)
  IN evaluate_hands(hands, n_players, Prod(n_players), HandFromCards(board_mask),
                    BatchInit(n_players), TRUE)

\* wins_by_mask[i] += times * mass[i] for the masks from i on
RECURSIVE AddMass(_, _, _, _)
AddMass(wins_by_mask, mass, times, i) ==
  IF i \notin DOMAIN wins_by_mask THEN wins_by_mask
  ELSE AddMass([wins_by_mask EXCEPT ![i] = @ + times * mass[i]], mass, times, i + 1)

\* a batch plus `times` copies of what `b` adds to a fresh batch
AddBatch(a, b, times) ==
  [a EXCEPT !.wins_by_mask = AddMass(@, b.wins_by_mask, times, 0),
            !.eval_count = @ + times * b.eval_count]

\* the mass of a batch per mask of actual players
ActualMass(batch, n) ==
  [m \in 0..(2 ^ n - 1) |->
     SumFn(batch.wins_by_mask,
           {i \in 0..(2 ^ n - 1) : ActualMask(batch.player_ids, n, i) = m})]

(***************************************************************************)
(* Bounds and the inputs of the calls that are explored.                   *)
(***************************************************************************)
\* worker threads per call: n_threads ranges over 1..MaxThreads
MaxThreads == 2
\* Monte Carlo batches merged before the stdev estimate must be below target
MaxBatches == 2
\* weight factors 2..MaxScale of the second call of a scaled pair
MaxScale == 3

\* card index 4 * rank + suit (rank 0 = deuce .. 12 = ace; suit 0 = s, 1 = h, 2 = d, 3 = c)
Card(rank, suit) == 4 * rank + suit

\* 2c 3d 4h 5s 9c: an ace makes the wheel
RiverBoard == {Card(0, 3), Card(1, 2), Card(2, 1), Card(3, 0), Card(7, 3)}
\* a board of six cards
SixCards == RiverBoard \cup {Card(8, 0)}
\* 2c 7c 9c
FlopBoard == {Card(0, 3), Card(5, 3), Card(7, 3)}
\* 2c 7c 9s
TwoToneFlop == {Card(0, 3), Card(5, 3), Card(7, 0)}

\* a combo <<higher card, lower card, weight>>
AsKs(w) == <<Card(12, 0), Card(11, 0), w>>
AhKh(w) == <<Card(12, 1), Card(11, 1), w>>
AdKd(w) == <<Card(12, 2), Card(11, 2), w>>
QdJd(w) == <<Card(10, 2), Card(9, 2), w>>
AsQs(w) == <<Card(12, 0), Card(10, 0), w>>
Jh9c(w) == <<Card(9, 1), Card(7, 3), w>>
QhJh(w) == <<Card(10, 1), Card(9, 1), w>>
AcKc(w) == <<Card(12, 3), Card(11, 3), w>>

\* the calls explored: [hand_ranges, board_mask]
Inputs ==
  { [hand_ranges |-> <<>>, board_mask |-> RiverBoard],
    [hand_ranges |-> << <<AsKs(100)>> >>, board_mask |-> SixCards],
    [hand_ranges |-> [k \in 1..(MAX_PLAYERS + 1) |-> <<AsKs(100)>>], board_mask |-> SixCards],
    [hand_ranges |-> << <<AsKs(100)>>, <<AhKh(100)>> >>, board_mask |-> SixCards],
    [hand_ranges |-> << <<AsKs(100)>>, <<AsQs(100), AsKs(50)>> >>, board_mask |-> RiverBoard],
    [hand_ranges |-> << <<AsKs(100)>>, <<Jh9c(100)>> >>, board_mask |-> RiverBoard],
    [hand_ranges |-> << <<AsKs(1)>>, <<AhKh(1)>> >>, board_mask |-> RiverBoard],
    [hand_ranges |-> << <<AsKs(1)>>, <<AhKh(1), Jh9c(7), QdJd(1)>> >>, board_mask |-> RiverBoard],
    [hand_ranges |-> << <<AsKs(1)>>, <<AhKh(1), QdJd(2)>>, <<AdKd(1)>> >>,
     board_mask |-> RiverBoard],
    [hand_ranges |-> << <<AsKs(100), QhJh(100)>>, <<QdJd(100), AdKd(100)>> >>,
     board_mask |-> FlopBoard],
    [hand_ranges |-> << <<AcKc(100), AhKh(100)>>, <<QdJd(100), QhJh(100)>> >>,
     board_mask |-> TwoToneFlop] }

\* every two-card combo of a (descending) list of cards, each with weight w
RECURSIVE AllPairs(_, _)
AllPairs(cards, w) ==
  IF Len(cards) <= 1 THEN <<>>
  ELSE [k \in 1..(Len(cards) - 1) |-> <<cards[1], cards[k + 1], w>>]
       \o AllPairs(Tail(cards), w)

\* two ranges of 105 combos each over disjoint cards off the board: 11025
\* joint assignments, which from_ranges leaves as two combined ranges
WideInput ==
  [hand_ranges |-> << AllPairs([k \in 1..15 |-> 51 - k], 1),
                      AllPairs([k \in 1..15 |-> 31 - k], 1) >>,
   board_mask |-> RiverBoard]


(***************************************************************************)
(* The Monte Carlo worker trial by trial (sim_random_walk_monte_carlo,     *)
(* randomize_hole_cards, randomize_board).  The locals are kept in a       *)
(* record w: used_cards_mask (a set of cards), combo_indexes,              *)
(* player_hands (per player the Hand of its hole cards) and combo_weights, *)
(* arrays over 0..MAX_PLAYERS-1.  The values of the random generator are   *)
(* arguments: draw (one combo index per combined range), samples (the      *)
(* cards sampled for the board, in order).                                 *)
(***************************************************************************)
\* the attempts of randomize_hole_cards: `for _ in 0..1000`
SEED_ATTEMPTS == 1000

RECURSIVE CopySlots(_, _, _, _)
\* `for j in 0..player_count`: the hand and the weight of slot j go to
\* player players[j]
CopySlots(cr, combo, w, j) ==
  IF j >= cr.player_count THEN w
  ELSE LET player_idx == cr.players[j]
       IN CopySlots(cr, combo,
                    [w EXCEPT !.player_hands[player_idx] =
                                 HandFromHoleCards(combo.hole_cards[j][1],
                                                   combo.hole_cards[j][2]),
                              !.combo_weights[player_idx] = combo.hole_cards[j][3]],
                    j + 1)

RECURSIVE DrawCombosUntested(_, _, _, _)
\* an attempt that takes every drawn combo, free or not
DrawCombosUntested(crs, draw, i, w) ==
  IF i > Len(crs) THEN w
  ELSE LET combo_idx == draw[i]
           combo == crs[i].combos[combo_idx + 1]
           w1 == [w EXCEPT !.combo_indexes[i - 1] = combo_idx]
       IN DrawCombosUntested(crs, draw, i + 1,
                             [CopySlots(crs[i], combo, w1, 0) EXCEPT
                                !.used_cards_mask = @ \cup combo.mask])

RECURSIVE DrawCombos(_, _, _, _)
\* one attempt of randomize_hole_cards from combined range i on: the drawn
\* index is stored, then the conflict test breaks the attempt or the combo
\* is copied and its mask added
DrawCombos(crs, draw, i, w) ==
  IF i > Len(crs) THEN w
  ELSE LET combo_idx == draw[i]
           combo == crs[i].combos[combo_idx + 1]
           w1 == [w EXCEPT !.combo_indexes[i - 1] = combo_idx]
       IN IF w1.used_cards_mask \cap combo.mask # {}
          THEN [w1 EXCEPT !.ok = FALSE]
          ELSE DrawCombos(crs, draw, i + 1,
                          [CopySlots(crs[i], combo, w1, 0) EXCEPT
                             !.used_cards_mask = @ \cup combo.mask])

\* one attempt: ok = true, used_cards_mask = board_mask, then the loop
HoleCardsAttempt(crs, board_mask, draw, w) ==
  DrawCombos(crs, draw, 1, [w EXCEPT !.ok = TRUE, !.used_cards_mask = board_mask])

RECURSIVE WalkLoop(_, _, _, _)
\* the inner loop of the random walk: decrement with wrap-around until the
\* combo's mask is free; gives up counting after size + 1 decrements
WalkLoop(cr, used_cards_mask, combo_idx, decrements) ==
  LET idx == (IF combo_idx = 0 THEN size(cr) ELSE combo_idx) - 1
  IN IF cr.combos[idx + 1].mask \cap used_cards_mask = {} \/ decrements >= size(cr)
     THEN [combo_idx |-> idx, decrements |-> decrements + 1]
     ELSE WalkLoop(cr, used_cards_mask, idx, decrements + 1)

\* a walk step that takes the first combo below the current one, free or not
WalkOnRangeUnchecked(crs, r, w) ==
  LET cr == crs[r]
      idx == (IF w.combo_indexes[r - 1] = 0 THEN size(cr) ELSE w.combo_indexes[r - 1]) - 1
      combo == cr.combos[idx + 1]
      used == w.used_cards_mask \ cr.combos[w.combo_indexes[r - 1] + 1].mask
  IN [CopySlots(cr, combo, w, 0) EXCEPT
        !.used_cards_mask = used \cup combo.mask,
        !.combo_indexes[r - 1] = idx,
        !.decrements = 1]

\* the random-walk step on combined range r (combined_range_idx = r - 1):
\* used_cards_mask -= mask of the current combo (borrow records that the
\* mask was not inside it), the loop, used_cards_mask |= mask, the copy of
\* the slots, combo_indexes
WalkOnRange(crs, r, w) ==
  LET cr == crs[r]
      current == cr.combos[w.combo_indexes[r - 1] + 1].mask
      used == w.used_cards_mask \ current
      found == WalkLoop(cr, used, w.combo_indexes[r - 1], 0)
      combo == cr.combos[found.combo_idx + 1]
  IN [CopySlots(cr, combo, w, 0) EXCEPT
        !.used_cards_mask = used \cup combo.mask,
        !.combo_indexes[r - 1] = found.combo_idx,
        !.decrements = found.decrements,
        !.borrow = @ \/ ~(current \subseteq w.used_cards_mask)]

RECURSIVE randomize_board_any(_, _, _, _)
\* a deal that takes every sampled card, used or not
randomize_board_any(samples, board, used_cards_mask, cards_remaining) ==
  IF cards_remaining = 0 THEN [board |-> board, complete |-> TRUE]
  ELSE IF samples = <<>> THEN [board |-> board, complete |-> FALSE]
  ELSE randomize_board_any(Tail(samples), HandAdd(board, CardHand(Head(samples))),
                           used_cards_mask \cup {Head(samples)}, cards_remaining - 1)

RECURSIVE randomize_board(_, _, _, _)
\* randomize_board: each sampled card that is in used_cards_mask is thrown
\* away, each other one is added to the mask and to the board, until
\* cards_remaining cards are dealt; complete is false when the samples given
\* end before that
randomize_board(samples, board, used_cards_mask, cards_remaining) ==
  IF cards_remaining = 0 THEN [board |-> board, complete |-> TRUE]
  ELSE IF samples = <<>> THEN [board |-> board, complete |-> FALSE]
  ELSE LET card == Head(samples)
       IN IF card \in used_cards_mask
          THEN randomize_board(Tail(samples), board, used_cards_mask, cards_remaining)
          ELSE randomize_board(Tail(samples), HandAdd(board, CardHand(card)),
                               used_cards_mask \cup {card}, cards_remaining - 1)

\* Hand::default(): both words zero
HandDefault == [k0 |-> 0, k1 |-> 0, k2 |-> 0, k3 |-> 0, mask |-> {}]

\* the locals of the worker before randomize_hole_cards (lines 720-730)
WorkerLocals ==
  [ok |-> TRUE, used_cards_mask |-> {},
   combo_indexes |-> [i \in 0..(MAX_PLAYERS - 1) |-> 0],
   player_hands |-> [i \in 0..(MAX_PLAYERS - 1) |-> HandDefault],
   combo_weights |-> [i \in 0..(MAX_PLAYERS - 1) |-> 1],
   decrements |-> 0, borrow |-> FALSE]

\* before the worker starts
NoWorker ==
  [pc |-> "idle", input |-> 0, crs |-> <<>>, board_mask |-> {}, attempts |-> 0,
   merges |-> <<>>, w |-> WorkerLocals,
   board |-> HandEmpty, weight |-> 0, batch |-> BatchInit(0),
   before |-> BatchInit(0), walked |-> 0]

(***************************************************************************)
(* State.  args, ret: the arguments and the outcome of the call; sim: the  *)
(* immutable fields of the Simulator; stopped, results, lookup_table,      *)
(* enum_pos: its shared mutable fields; th: the locals of each worker;     *)
(* work: for each flat index (each combo index in Monte Carlo mode) what   *)
(* the pure part of the loop body computes there, tabulated when the       *)
(* Simulator is built; prev: the outcome of an earlier call; reserved,     *)
(* visited, revisits, trials: history of the reservations, of the indices  *)
(* whose body ran, and of the Monte Carlo trials evaluated.                *)
(***************************************************************************)
VARIABLES phase, args, ret, prev, sim, work, stopped, results, lookup_table,
          enum_pos, th, reserved, visited, revisits, trials

\* range_list, c_ranges, round: the argument and the local c_ranges of
\* CombinedRange::from_ranges and where its loop stands, with joins, the
\* number of joins made so far
VARIABLES range_list, c_ranges, round, joins

\* deck: the cards a hand is built from; cards: those added so far to
\* Hand::empty(); hand: the Hand value obtained
VARIABLES deck, cards, hand

\* gen: the table generator while calc_perfect_hash_offsets runs; prune: a
\* range, a board and what remove_conflicting_combos left of the range
VARIABLES gen, prune

\* tot: one Monte Carlo worker with its counters as u64 words
VARIABLES tot

\* parser: HandRange::from_string at work: the text, char_vec, the position i
\* and the hands; or the cards of a direct call of add_combo and the hands
VARIABLES parser

\* gate: the batch statistics of SimulationResults and the stop flag, over the merges of a run
VARIABLES gate

\* brd: one call of enumerate_board: the hole cards, the board, the batch it filled and the calls of evaluate_hands it made
VARIABLES brd

\* mcw: the locals of one Monte Carlo worker, trial by trial: its place in sim_random_walk_monte_carlo, the selection and the outputs of randomize_hole_cards, the board of the last trial and the batch
VARIABLES mcw

join_vars == <<range_list, c_ranges, round, joins>>
hand_vars == <<deck, cards, hand>>
table_vars == <<gen, prune, tot, parser, gate, brd, mcw>>

\* the state outside the equity calculation
lib_vars == <<join_vars, hand_vars, table_vars>>

vars == <<phase, args, ret, prev, sim, work, stopped, results, lookup_table,
          enum_pos, th, reserved, visited, revisits, trials, range_list, c_ranges,
          round, joins, deck, cards, hand, gen, prune, tot, parser, gate, brd, mcw>>

NoRet == [kind |-> "none", err |-> "", equity |-> <<>>]
NoPrev == [kind |-> "none", range |-> 0, factor |-> 0, results |-> ResultsInit(0),
           equity |-> <<>>]
NoSim == [hand_ranges |-> <<>>, combined_ranges |-> <<>>, board_mask |-> {},
          n_players |-> 0, sizes |-> <<>>, board_count |-> 0, calc_exact |-> TRUE]
NoArgs == [hand_ranges |-> <<>>, board_mask |-> {}, n_threads |-> 0, calc_exact |-> TRUE]
NoTrials == [count |-> 0, mass |-> ResultsInit(0).wins_by_mask]

Threads == DOMAIN th
Total == get_preflop_combo_count(sim.sizes)
Postflop == get_postflop_combo_count(sim.board_count, sim.n_players)
WorkAt(idx) == work[(idx % Len(work)) + 1]

Init ==
  /\ phase = "idle"
  /\ args = NoArgs
  /\ ret = NoRet
  /\ prev = NoPrev
  /\ sim = NoSim
  /\ work = <<>>
  /\ stopped = FALSE
  /\ results = ResultsInit(0)
  /\ lookup_table = <<>>
  /\ enum_pos = 0
  /\ th = <<>>
  /\ reserved = <<>>
  /\ visited = {}
  /\ revisits = 0
  /\ trials = NoTrials
  /\ range_list = <<>>
  /\ c_ranges = <<>>
  /\ round = "idle"
  /\ joins = 0
  /\ deck = <<>>
  /\ cards = {}
  /\ hand = HandEmpty
  /\ gen = NoGen
  /\ prune = NoPrune
  /\ tot = NoTotals
  /\ parser = NoParser
  /\ gate = NoGate
  /\ brd = NoBoard
  /\ mcw = NoWorker


(***************************************************************************)
(* exact_equity and approx_equity up to the spawn of the workers.          *)
(***************************************************************************)
\* what enumerate_all computes at each flat index, and beside it (direct)
\* the per-mask mass of the same assignment enumerated without the lookup
TableRow(crs, board_mask, n_players, use_lookup, idx, w) ==
  [ok |-> w.ok, panics |-> w.panics, weight |-> w.weight, ids |-> w.ids,
   key |-> w.key, stats |-> w.stats,
   direct |-> IF use_lookup /\ w.ok /\ ~w.panics
              THEN IndexWork(crs, board_mask, n_players, FALSE, idx).stats.wins_by_mask
              ELSE w.stats.wins_by_mask]

TableRows(crs, board_mask, n_players, use_lookup, total) ==
  [k \in 1..total |->
     TableRow(crs, board_mask, n_players, use_lookup, k - 1,
              IndexWork(crs, board_mask, n_players, use_lookup, k - 1))]

ExactTable(crs, board_mask, n_players) ==
  TableRows(crs, board_mask, n_players,
            UseLookup(get_postflop_combo_count(Cardinality(board_mask), n_players)),
            get_preflop_combo_count([k \in 1..Len(crs) |-> size(crs[k])]))

\* what one trial evaluates for each combo of the (single) combined range
McTable(crs, board_mask, n_players) ==
  [k \in 1..size(crs[1]) |->
     LET b == McTrial(crs, board_mask, n_players, <<k - 1>>)
     IN [ok |-> TRUE, panics |-> FALSE, weight |-> 0, ids |-> b.player_ids,
         key |-> <<>>, stats |-> b, direct |-> b.wins_by_mask]]

\* the permutations of 1..n
Perms(n) == {f \in [1..n -> 1..n] : \A i, j \in 1..n : f[i] = f[j] => i = j}

\* one order per combined range
PermTuples(crs) ==
  {fs \in [1..Len(crs) -> UNION {Perms(size(crs[k])) : k \in 1..Len(crs)}] :
     \A k \in 1..Len(crs) : fs[k] \in Perms(size(crs[k]))}

\* CombinedRange::shuffle with the order f
Shuffled(cr, f) == [cr EXCEPT !.combos = [k \in 1..size(cr) |-> cr.combos[f[k]]]]

\* a worker before its first step
Worker(n_players, calc_exact) ==
  [pc |-> IF calc_exact THEN "reserve" ELSE "seed", enum_pos |-> 0, enum_end |-> 0,
   stats |-> BatchInit(n_players), combo_indexes |-> <<>>]

\* an early return Err(e): nothing but the outcome changes
Fail(hr, bm, exact, e) ==
  /\ \E n \in 1..MaxThreads :
       args' = [hand_ranges |-> hr, board_mask |-> bm, n_threads |-> n, calc_exact |-> exact]
  /\ ret' = [kind |-> "Err", err |-> e, equity |-> <<>>]
  /\ phase' = "returned"
  /\ UNCHANGED <<sim, work, stopped, results, lookup_table, enum_pos, th, reserved,
                 visited, revisits, trials>>

\* Simulator::new and the spawn of n_threads workers
Launch(hr, bm, exact, pruned, crs, table) ==
  /\ sim' = [hand_ranges |-> pruned, combined_ranges |-> crs, board_mask |-> bm,
             n_players |-> Len(pruned),
             sizes |-> [k \in 1..Len(crs) |-> size(crs[k])],
             board_count |-> HandCount(HandFromCards(bm)), calc_exact |-> exact]
  /\ work' = table
  /\ stopped' = FALSE
  /\ results' = ResultsInit(Len(pruned))
  /\ lookup_table' = <<>>
  /\ enum_pos' = 0
  /\ reserved' = <<>>
  /\ visited' = {}
  /\ revisits' = 0
  /\ trials' = [count |-> 0, mass |-> ResultsInit(Len(pruned)).wins_by_mask]
  /\ ret' = NoRet
  /\ phase' = "running"
  /\ \E n \in 1..MaxThreads :
       /\ args' = [hand_ranges |-> hr, board_mask |-> bm, n_threads |-> n,
                   calc_exact |-> exact]
       /\ th' = [t \in 1..n |-> Worker(Len(pruned), exact)]

\* the body of exact_equity
ExactBody(hr, bm) ==
  LET e == CheckArgs(Len(hr), Cardinality(bm))
      pruned == Prune(hr, bm)
      crs == from_ranges(pruned)
  IN IF e # "" THEN Fail(hr, bm, TRUE, e)
     ELSE IF HasEmptyRange(crs) THEN Fail(hr, bm, TRUE, "ConflictingRanges")
     ELSE Launch(hr, bm, TRUE, pruned, crs, ExactTable(crs, bm, Len(pruned)))

\* the body of approx_equity; each combined range is shuffled
ApproxBody(hr, bm) ==
  LET e == CheckArgs(Len(hr), Cardinality(bm))
      pruned == Prune(hr, bm)
      crs == from_ranges(pruned)
  IN IF e # "" THEN Fail(hr, bm, FALSE, e)
     ELSE IF HasEmptyRange(crs) THEN Fail(hr, bm, FALSE, "ConflictingRanges")
     ELSE \E fs \in PermTuples(crs) :
            LET shuffled == [k \in 1..Len(crs) |-> Shuffled(crs[k], fs[k])]
            IN Launch(hr, bm, FALSE, pruned, shuffled, McTable(shuffled, bm, Len(pruned)))

\* a call of exact_equity
ExactEquity ==
  /\ phase = "idle"
  /\ prev' = prev
  /\ \E in \in Inputs \cup {WideInput} : ExactBody(in.hand_ranges, in.board_mask)
  /\ UNCHANGED lib_vars

\* a call of approx_equity; the boards explored are complete (or too large)
ApproxEquity ==
  /\ phase = "idle"
  /\ prev' = prev
  /\ \E in \in Inputs :
       /\ Cardinality(in.board_mask) >= BOARD_CARDS
       /\ ApproxBody(in.hand_ranges, in.board_mask)
  /\ UNCHANGED lib_vars


(***************************************************************************)
(* Simulator::enumerate_all, one worker t.  pc: reserve (enum_pos >=       *)
(* enum_end at the head of the loop), body (the index enum_pos is to be    *)
(* processed), store (a lookup miss: the boards are enumerated and the     *)
(* result stored), merge, check (the load of the stop flag), final (the    *)
(* update_results after the loop), done, panicked.                         *)
(***************************************************************************)
\* enum_pos += 1 and the test at the head of the loop
Advance(w) ==
  [w EXCEPT !.enum_pos = @ + 1,
            !.pc = IF w.enum_pos + 1 >= w.enum_end THEN "reserve" ELSE "body"]

\* the test `stats.eval_count >= 10000 || use_lookup` after an index
AfterIndex(w) ==
  IF w.stats.eval_count >= MERGE_EVALS \/ UseLookup(Postflop)
  THEN [w EXCEPT !.pc = "merge"]
  ELSE Advance(w)

\* a hit that keeps the player_ids of the index that stored the entry
HitStatsStale(stored, ids) == [stored EXCEPT !.eval_count = 0]

\* a hit of lookup_results: the stored batch replaces stats, then player_ids
\* is set from the sorted hands of this index and eval_count is cleared
HitStats(stored, ids) == [stored EXCEPT !.player_ids = ids, !.eval_count = 0]

\* the history of the indices whose body ran
Visit(idx) ==
  /\ visited' = visited \cup {idx}
  /\ revisits' = IF idx \in visited THEN revisits + 1 ELSE revisits

\* the reservation at the head of the loop; an empty interval ends the loop
Reserve(t) ==
  /\ phase = "running" /\ t \in Threads /\ th[t].pc = "reserve"
  /\ LET r == reserve_batch(enum_pos, BatchSize(Postflop), Total)
     IN /\ enum_pos' = r.enum_pos
        /\ reserved' = Append(reserved, [start |-> r.start, end |-> r.end, by |-> t])
        /\ th' = [th EXCEPT ![t] = [@ EXCEPT !.enum_pos = r.start, !.enum_end = r.end,
                                             !.pc = IF r.start >= r.end THEN "final"
                                                    ELSE "body"]]
  /\ UNCHANGED <<phase, args, ret, prev, sim, work, stopped, results, lookup_table,
                 visited, revisits, trials>>
  /\ UNCHANGED lib_vars

\* one index without the lookup: the boards are enumerated into stats
Enumerate(t) ==
  /\ phase = "running" /\ t \in Threads /\ th[t].pc = "body" /\ ~UseLookup(Postflop)
  /\ LET w == WorkAt(th[t].enum_pos)
     IN th' = [th EXCEPT ![t] =
                 IF ~w.ok THEN AfterIndex(@)
                 ELSE IF w.panics THEN [@ EXCEPT !.pc = "panicked"]
                 ELSE AfterIndex([@ EXCEPT !.stats = AddBatch(@, w.stats, 1)])]
  /\ Visit(th[t].enum_pos)
  /\ UNCHANGED <<phase, args, ret, prev, sim, work, stopped, results, lookup_table,
                 enum_pos, reserved, trials>>
  /\ UNCHANGED lib_vars

\* one index with the lookup: sort, transform_suits, lookup_results
Lookup(t) ==
  /\ phase = "running" /\ t \in Threads /\ th[t].pc = "body" /\ UseLookup(Postflop)
  /\ LET w == WorkAt(th[t].enum_pos)
     IN th' = [th EXCEPT ![t] =
                 IF ~w.ok THEN AfterIndex(@)
                 ELSE IF w.key \in DOMAIN lookup_table
                 THEN AfterIndex([@ EXCEPT !.stats = HitStats(lookup_table[w.key], w.ids)])
                 ELSE [@ EXCEPT !.stats.player_ids = w.ids, !.pc = "store"]]
  /\ Visit(th[t].enum_pos)
  /\ UNCHANGED <<phase, args, ret, prev, sim, work, stopped, results, lookup_table,
                 enum_pos, reserved, trials>>
  /\ UNCHANGED lib_vars

\* after a miss: enumerate_board, then store_results
Store(t) ==
  /\ phase = "running" /\ t \in Threads /\ th[t].pc = "store"
  /\ LET w == WorkAt(th[t].enum_pos)
         filled == [w.stats EXCEPT !.player_ids = th[t].stats.player_ids]
     IN IF w.panics
        THEN /\ th' = [th EXCEPT ![t].pc = "panicked"]
             /\ lookup_table' = lookup_table
        ELSE /\ th' = [th EXCEPT ![t] = AfterIndex([@ EXCEPT !.stats = filled])]
             /\ lookup_table' = [k \in DOMAIN lookup_table \cup {w.key} |->
                                   IF k = w.key THEN filled ELSE lookup_table[k]]
  /\ UNCHANGED <<phase, args, ret, prev, sim, work, stopped, results, enum_pos,
                 reserved, visited, revisits, trials>>
  /\ UNCHANGED lib_vars

\* update_results(&stats, false) and the reset of stats
Merge(t) ==
  /\ phase = "running" /\ t \in Threads /\ th[t].pc = "merge" /\ sim.calc_exact
  /\ results' = update_results(results, th[t].stats, sim.n_players, sim.calc_exact)
  /\ \E below_target \in BOOLEAN :
       stopped' = (stopped \/ StopGate(sim.calc_exact, FALSE, below_target))
  /\ th' = [th EXCEPT ![t] = [@ EXCEPT !.stats = BatchInit(sim.n_players), !.pc = "check"]]
  /\ UNCHANGED <<phase, args, ret, prev, sim, work, lookup_table, enum_pos, reserved,
                 visited, revisits, trials>>
  /\ UNCHANGED lib_vars

\* `if self.stopped.load() { break; }`, else enum_pos += 1
Check(t) ==
  /\ phase = "running" /\ t \in Threads /\ th[t].pc = "check" /\ sim.calc_exact
  /\ th' = [th EXCEPT ![t] = IF stopped THEN [@ EXCEPT !.pc = "final"] ELSE Advance(@)]
  /\ UNCHANGED <<phase, args, ret, prev, sim, work, stopped, results, lookup_table,
                 enum_pos, reserved, visited, revisits, trials>>
  /\ UNCHANGED lib_vars

\* update_results(&stats, true) after the loop
Final(t) ==
  /\ phase = "running" /\ t \in Threads /\ th[t].pc = "final" /\ sim.calc_exact
  /\ results' = update_results(results, th[t].stats, sim.n_players, sim.calc_exact)
  /\ \E below_target \in BOOLEAN :
       stopped' = (stopped \/ StopGate(sim.calc_exact, TRUE, below_target))
  /\ th' = [th EXCEPT ![t].pc = "done"]
  /\ UNCHANGED <<phase, args, ret, prev, sim, work, lookup_table, enum_pos, reserved,
                 visited, revisits, trials>>
  /\ UNCHANGED lib_vars

\* the scope has joined every worker: results.get_equity(), or the unwrap
\* of the scope's error when a worker panicked
Return ==
  /\ phase = "running"
  /\ \A t \in Threads : th[t].pc \in {"done", "panicked"}
  /\ ret' = IF \E t \in Threads : th[t].pc = "panicked"
            THEN [kind |-> "Panic", err |-> "", equity |-> <<>>]
            ELSE [kind |-> "Ok", err |-> "", equity |-> get_equity(results)]
  /\ phase' = "returned"
  /\ UNCHANGED <<args, prev, sim, work, stopped, results, lookup_table, enum_pos, th,
                 reserved, visited, revisits, trials>>
  /\ UNCHANGED lib_vars


(***************************************************************************)
(* Simulator::sim_random_walk_monte_carlo, one worker t.  pc: seed (the    *)
(* first randomize_hole_cards), batch (4096 trials from the current        *)
(* selection, a random-walk step between two trials), merge, check (the    *)
(* load of the stop flag, then the reset of the batch and the re-seeding), *)
(* final, done.  The batch is run for one combined range, where a trial's  *)
(* outcome is fixed by the selected combo.                                 *)
(***************************************************************************)
\* whether the combos selected by combo_indexes are disjoint from the board
\* and from each other (the test of randomize_hole_cards)
SeedOk(crs, board_mask, ci) ==
  /\ \A i \in 1..Len(crs) : crs[i].combos[ci[i] + 1].mask \cap board_mask = {}
  /\ \A i, j \in 1..Len(crs) :
       i < j => crs[i].combos[ci[i] + 1].mask \cap crs[j].combos[ci[j] + 1].mask = {}

\* the selections randomize_hole_cards can draw
Draws(crs) ==
  {ci \in [1..Len(crs) -> UNION {0..(size(crs[i]) - 1) : i \in 1..Len(crs)}] :
     \A i \in 1..Len(crs) : ci[i] < size(crs[i])}

\* randomize_hole_cards: true with a selection that passed the test, or
\* false after 1000 draws that failed it
randomize_hole_cards(crs, board_mask) ==
  {[ok |-> TRUE, combo_indexes |-> ci] : ci \in {d \in Draws(crs) : SeedOk(crs, board_mask, d)}}
  \cup (IF \E d \in Draws(crs) : ~SeedOk(crs, board_mask, d)
        THEN {[ok |-> FALSE, combo_indexes |-> <<>>]} ELSE {})

\* the random-walk step on combined range r: decrement cyclically from the
\* current index to the first combo disjoint from the other used cards
RECURSIVE WalkFrom(_, _, _)
WalkFrom(cr, used_cards_mask, combo_idx) ==
  LET next == (IF combo_idx = 0 THEN size(cr) ELSE combo_idx) - 1
  IN IF cr.combos[next + 1].mask \cap used_cards_mask = {} THEN next
     ELSE WalkFrom(cr, used_cards_mask, next)

WalkStep(crs, board_mask, ci, r) ==
  LET used == board_mask \cup UNION {crs[i].combos[ci[i] + 1].mask : i \in (1..Len(crs)) \ {r}}
  IN [k \in 1..Len(ci) |-> IF k = r THEN WalkFrom(crs[r], used, ci[r]) ELSE ci[k]]

\* 4096 trials of one combined range of `sz` combos, the first at combo c,
\* each next one a walk step (one decrement) further: combo (c - k) mod sz
\* is evaluated once for every trial number congruent to k
RECURSIVE RunTrials(_, _, _, _)
RunTrials(batch, c, sz, k) ==
  IF k >= sz \/ k >= MC_BATCH THEN batch
  ELSE LET times == (MC_BATCH \div sz) + (IF k < MC_BATCH % sz THEN 1 ELSE 0)
       IN RunTrials(AddBatch(batch, WorkAt((c + sz * MC_BATCH - k) % sz).stats, times),
                    c, sz, k + 1)

McSeed(t) ==
  /\ phase = "running" /\ t \in Threads /\ th[t].pc = "seed"
  /\ \E s \in randomize_hole_cards(sim.combined_ranges, sim.board_mask) :
       th' = [th EXCEPT ![t] = IF s.ok
                               THEN [@ EXCEPT !.combo_indexes = s.combo_indexes,
                                              !.pc = "batch"]
                               ELSE [@ EXCEPT !.pc = "final"]]
  /\ UNCHANGED <<phase, args, ret, prev, sim, work, stopped, results, lookup_table,
                 enum_pos, reserved, visited, revisits, trials>>
  /\ UNCHANGED lib_vars

McBatch(t) ==
  /\ phase = "running" /\ t \in Threads /\ th[t].pc = "batch"
  /\ Len(sim.combined_ranges) = 1
  /\ LET sz == sim.sizes[1]
         c == th[t].combo_indexes[1]
         batch == RunTrials(th[t].stats, c, sz, 0)
         run == RunTrials(BatchInit(sim.n_players), c, sz, 0)
     IN /\ th' = [th EXCEPT ![t] =
                    [@ EXCEPT !.stats = batch,
                              !.combo_indexes = <<(c + sz * MC_BATCH - (MC_BATCH - 1)) % sz>>,
                              !.pc = "merge"]]
        /\ trials' = [count |-> trials.count + run.eval_count,
                      mass |-> [m \in DOMAIN trials.mass |->
                                  trials.mass[m] + run.wins_by_mask[m]]]
  /\ UNCHANGED <<phase, args, ret, prev, sim, work, stopped, results, lookup_table,
                 enum_pos, reserved, visited, revisits>>
  /\ UNCHANGED lib_vars

\* update_results(&batch, false): the stdev estimate falls below the target
\* at some merge, at the latest at merge number MaxBatches
McMerge(t) ==
  /\ phase = "running" /\ t \in Threads /\ th[t].pc = "merge" /\ ~sim.calc_exact
  /\ results' = update_results(results, th[t].stats, sim.n_players, sim.calc_exact)
  /\ \E below_target \in BOOLEAN :
       /\ results.batch_count + 1 >= MaxBatches => below_target
       /\ stopped' = (stopped \/ StopGate(sim.calc_exact, FALSE, below_target))
  /\ th' = [th EXCEPT ![t].pc = "check"]
  /\ UNCHANGED <<phase, args, ret, prev, sim, work, lookup_table, enum_pos, reserved,
                 visited, revisits, trials>>
  /\ UNCHANGED lib_vars

\* `if self.stopped.load() { break; }`; else the batch is reset, the hole
\* cards are drawn again and the walk makes its step
McCheck(t) ==
  /\ phase = "running" /\ t \in Threads /\ th[t].pc = "check" /\ ~sim.calc_exact
  /\ IF stopped
     THEN th' = [th EXCEPT ![t].pc = "final"]
     ELSE \E s \in randomize_hole_cards(sim.combined_ranges, sim.board_mask) :
            th' = [th EXCEPT ![t] =
                     IF s.ok
                     THEN [@ EXCEPT !.stats = BatchInit(sim.n_players),
                                    !.combo_indexes =
                                       WalkStep(sim.combined_ranges, sim.board_mask,
                                                s.combo_indexes, 1),
                                    !.pc = "batch"]
                     ELSE [@ EXCEPT !.stats = BatchInit(sim.n_players), !.pc = "final"]]
  /\ UNCHANGED <<phase, args, ret, prev, sim, work, stopped, results, lookup_table,
                 enum_pos, reserved, visited, revisits, trials>>
  /\ UNCHANGED lib_vars

\* update_results(&batch, true) after the loop
McFinal(t) ==
  /\ phase = "running" /\ t \in Threads /\ th[t].pc = "final" /\ ~sim.calc_exact
  /\ results' = update_results(results, th[t].stats, sim.n_players, sim.calc_exact)
  /\ \E below_target \in BOOLEAN :
       stopped' = (stopped \/ StopGate(sim.calc_exact, TRUE, below_target))
  /\ th' = [th EXCEPT ![t].pc = "done"]
  /\ UNCHANGED <<phase, args, ret, prev, sim, work, lookup_table, enum_pos, reserved,
                 visited, revisits, trials>>
  /\ UNCHANGED lib_vars


(***************************************************************************)
(* A second call of exact_equity on the ranges of a call that returned,    *)
(* with every weight of one range multiplied by a constant.                *)
(***************************************************************************)
\* range r of ranges with every weight multiplied by c
Scaled(ranges, r, c) ==
  [q \in 1..Len(ranges) |->
     IF q = r
     THEN [k \in 1..Len(ranges[r]) |->
             <<ranges[r][k][1], ranges[r][k][2], c * ranges[r][k][3]>>]
     ELSE ranges[q]]

ExactEquityScaled ==
  /\ phase = "returned" /\ ret.kind = "Ok" /\ args.calc_exact /\ prev.kind = "none"
  /\ \E r \in 1..Len(args.hand_ranges), c \in 2..MaxScale :
       /\ \A k \in 1..Len(args.hand_ranges[r]) : c * args.hand_ranges[r][k][3] <= 100
       /\ prev' = [kind |-> "scaled", range |-> r, factor |-> c, results |-> results,
                   equity |-> ret.equity]
       /\ ExactBody(Scaled(args.hand_ranges, r, c), args.board_mask)
  /\ UNCHANGED lib_vars

Next ==
  \/ ExactEquity
  \/ ApproxEquity
  \/ ExactEquityScaled
  \/ \E t \in 1..MaxThreads : Reserve(t)
  \/ \E t \in 1..MaxThreads : Enumerate(t)
  \/ \E t \in 1..MaxThreads : Lookup(t)
  \/ \E t \in 1..MaxThreads : Store(t)
  \/ \E t \in 1..MaxThreads : Merge(t)
  \/ \E t \in 1..MaxThreads : Check(t)
  \/ \E t \in 1..MaxThreads : Final(t)
  \/ \E t \in 1..MaxThreads : McSeed(t)
  \/ \E t \in 1..MaxThreads : McBatch(t)
  \/ \E t \in 1..MaxThreads : McMerge(t)
  \/ \E t \in 1..MaxThreads : McCheck(t)
  \/ \E t \in 1..MaxThreads : McFinal(t)
  \/ Return

Spec == Init /\ [][Next]_vars

(***************************************************************************)
(* The scheduling of enumerate_all on enumerations with more than one      *)
(* interval.  Before the flop an index stands for up to C(48, 5) boards,   *)
(* so here the pure part of the loop body is given per index by a short    *)
(* periodic list of outcomes (work), and the workers, the cursor, the      *)
(* lookup table and the merges run as above.  The workloads are shapes the *)
(* Simulator can be built with: one combined range of fewer than MAX_SIZE  *)
(* combos, or two combined ranges whose join would reach MAX_SIZE, where   *)
(* every index reads a slot of hole_cards that join never filled.          *)
(***************************************************************************)
\* indices of the workloads that use the lookup
MaxIndices == 3
\* indices of the workload on a four-card board, enough for eval_count to
\* reach MERGE_EVALS
TurnIndices == 230

\* a batch: the mass won by player 0 alone, by player 1 alone and tied by
\* all players (for one index the three sum to the boards of the index,
\* C(48, 5) for two players before the flop, C(42, 5) for five), and the
\* evaluations
SchedStats(n, won0, won1, tied, evals) ==
  [wins_by_mask |-> [i \in 0..(2 ^ n - 1) |->
                       IF i = 1 THEN won0 ELSE IF i = 2 THEN won1
                       ELSE IF i = 2 ^ n - 1 THEN tied ELSE 0],
   player_ids |-> [i \in 0..(n - 1) |-> i],
   eval_count |-> evals]

\* the outcome of one index: the batch in the frame of the sorted hands, the
\* players at the sorted positions, the key of the lookup
SchedRow(n, ids, key, stats) ==
  [ok |-> TRUE, panics |-> FALSE, weight |-> 1, ids |-> ids, key |-> key,
   stats |-> [stats EXCEPT !.player_ids = ids],
   direct |-> ActualMass([stats EXCEPT !.player_ids = ids], n)]

\* an index whose assignment reads an unset slot: Hand::from_hole_cards(52, _)
PanicRow(n) ==
  [ok |-> TRUE, panics |-> TRUE, weight |-> 0, ids |-> [i \in 0..(n - 1) |-> i],
   key |-> <<0, 0>>, stats |-> BatchInit(n), direct |-> BatchInit(n).wins_by_mask]

Workloads ==
  { \* two players before the flop: the lookup, intervals of one index
    [n_players |-> 2, board_count |-> 0, sizes |-> <<MaxIndices>>,
     rows |-> << SchedRow(2, [i \in 0..1 |-> i], <<1, 1>>,
                          SchedStats(2, 1400001, 300000, 12303, 300000)),
                 SchedRow(2, [i \in 0..1 |-> 1 - i], <<1, 1>>,
                          SchedStats(2, 1400001, 300000, 12303, 300000)),
                 SchedRow(2, [i \in 0..1 |-> i], <<2, 1>>,
                          SchedStats(2, 700000, 900001, 112303, 300000)) >>],
    \* five players before the flop: the lookup, intervals of two indices
    [n_players |-> 5, board_count |-> 0, sizes |-> <<MaxIndices>>,
     rows |-> << SchedRow(5, [i \in 0..4 |-> i], <<3, 1>>,
                          SchedStats(5, 500000, 300000, 50668, 200000)),
                 SchedRow(5, [i \in 0..4 |-> 4 - i], <<3, 1>>,
                          SchedStats(5, 500000, 300000, 50668, 200000)) >>],
    \* two players on a four-card board: no lookup, one interval
    [n_players |-> 2, board_count |-> 4, sizes |-> <<TurnIndices>>,
     rows |-> << SchedRow(2, [i \in 0..1 |-> i], <<>>,
                          SchedStats(2, 30, 11, 3, get_postflop_combo_count(4, 2))),
                 SchedRow(2, [i \in 0..1 |-> i], <<>>,
                          SchedStats(2, 9, 34, 1, get_postflop_combo_count(4, 2))) >>],
    \* two combined ranges of 100 combos over disjoint cards, before the flop
    [n_players |-> 2, board_count |-> 0, sizes |-> <<100, 100>>,
     rows |-> << PanicRow(2) >>] }

\* Simulator::new on a workload and the spawn of n_threads workers
SchedStart ==
  /\ phase = "idle"
  /\ \E w \in Workloads :
       /\ sim' = [hand_ranges |-> <<>>, combined_ranges |-> <<>>, board_mask |-> {},
                  n_players |-> w.n_players, sizes |-> w.sizes,
                  board_count |-> w.board_count, calc_exact |-> TRUE]
       /\ work' = w.rows
       /\ results' = ResultsInit(w.n_players)
       /\ \E n \in 1..MaxThreads :
            /\ args' = [hand_ranges |-> <<>>, board_mask |-> {}, n_threads |-> n,
                        calc_exact |-> TRUE]
            /\ th' = [t \in 1..n |-> Worker(w.n_players, TRUE)]
  /\ stopped' = FALSE
  /\ lookup_table' = <<>>
  /\ enum_pos' = 0
  /\ reserved' = <<>>
  /\ visited' = {}
  /\ revisits' = 0
  /\ phase' = "running"
  /\ UNCHANGED <<ret, prev, trials>>
  /\ UNCHANGED lib_vars

NextSched ==
  \/ SchedStart
  \/ \E t \in 1..MaxThreads : Reserve(t)
  \/ \E t \in 1..MaxThreads : Enumerate(t)
  \/ \E t \in 1..MaxThreads : Lookup(t)
  \/ \E t \in 1..MaxThreads : Store(t)
  \/ \E t \in 1..MaxThreads : Merge(t)
  \/ \E t \in 1..MaxThreads : Check(t)
  \/ \E t \in 1..MaxThreads : Final(t)
  \/ Return

SpecSched == Init /\ [][NextSched]_vars


(***************************************************************************)
(* CombinedRange::from_ranges, one round of its loop at a time.            *)
(* range_list is the argument; c_ranges the local list; round: idle, loop  *)
(* (at the head of the loop), returned.                                    *)
(***************************************************************************)
\* the longest list of light ranges explored
MaxRanges == 3

\* ranges of a few combos, some of them sharing cards, and the empty range
LightRanges ==
  { <<AsKs(100), AhKh(50)>>, <<QdJd(100)>>, <<AsQs(7), Jh9c(1)>>, <<>> }

\* ranges of 100, 100 and 95 combos over three disjoint groups of 15 cards:
\* joins of 10000 and of 9500 joint combos, either side of MAX_SIZE
Wide100 == SubSeq(AllPairs([k \in 1..15 |-> 51 - k], 1), 1, 100)
Mid100 == SubSeq(AllPairs([k \in 1..15 |-> 31 - k], 1), 1, 100)
Low95 == SubSeq(AllPairs([k \in 1..15 |-> 15 - k], 1), 1, 95)

\* the arguments explored: every list of at most MaxRanges light ranges, and
\* lists with ranges large enough for a join to reach MAX_SIZE
FromRangesInputs ==
  UNION {[1..n -> LightRanges] : n \in 0..MaxRanges}
    \cup { <<Wide100, Mid100>>, <<Low95, Wide100>>, <<Low95, Wide100, <<QdJd(100)>> >>,
           <<Wide100, <<AsKs(100), AhKh(50)>>, Mid100>> }

calc_vars == <<phase, args, ret, prev, sim, work, stopped, results, lookup_table,
               enum_pos, th, reserved, visited, revisits, trials>>

\* the state outside from_ranges
not_join_vars == <<calc_vars, hand_vars, table_vars>>

\* the scan of the pairs at the head of a round
ScanPairs(crs) ==
  BestPair(crs, PairsInOrder(Len(crs)), 1, [none |-> TRUE, size |-> 0, i |-> 0, j |-> 0])

\* the call: one combined range per hand range
FromRanges ==
  /\ round = "idle"
  /\ \E rs \in FromRangesInputs :
       /\ range_list' = rs
       /\ c_ranges' = [k \in 1..Len(rs) |-> from_range(rs[k], k - 1)]
  /\ round' = "loop"
  /\ joins' = 0
  /\ UNCHANGED not_join_vars

\* a round that joins: best_size < MAX_SIZE
JoinBest ==
  /\ round = "loop"
  /\ LET best == ScanPairs(c_ranges)
     IN /\ ~best.none /\ best.size < MAX_SIZE
        /\ c_ranges' = SubSeq(c_ranges, 1, best.j)
                         \o <<join(c_ranges[best.j + 1], c_ranges[best.i + 1])>>
                         \o SubSeq(c_ranges, best.j + 2, best.i)
                         \o SubSeq(c_ranges, best.i + 2, Len(c_ranges))
  /\ joins' = joins + 1
  /\ UNCHANGED <<round, range_list>>
  /\ UNCHANGED not_join_vars

\* the round that breaks: no pair, or best_size >= MAX_SIZE
Break ==
  /\ round = "loop"
  /\ LET best == ScanPairs(c_ranges)
     IN best.none \/ best.size >= MAX_SIZE
  /\ round' = "returned"
  /\ UNCHANGED <<c_ranges, range_list, joins>>
  /\ UNCHANGED not_join_vars

NextJoin ==
  \/ FromRanges
  \/ JoinBest
  \/ Break

SpecJoin == Init /\ [][NextJoin]_vars



(***************************************************************************)
(* Properties of CombinedRange::from_ranges.                               *)
(***************************************************************************)
\* the cards held in the slots 0..player_count of a combo
SlotCards(c, player_count) ==
  UNION {{c.hole_cards[s][1], c.hole_cards[s][2]} : s \in 0..(player_count - 1)}

\* C11: at every round of from_ranges and on return, every combo of every
\* combined range has a mask of exactly 2 * player_count cards, equal to
\* the union of the hole cards in its slots 0..player_count, so that no
\* card is held twice in a joint combo.
C11_ComboMasks ==
  \A k \in DOMAIN c_ranges :
    \A n \in DOMAIN c_ranges[k].combos :
      /\ Cardinality(c_ranges[k].combos[n].mask) = 2 * c_ranges[k].player_count
      /\ c_ranges[k].combos[n].mask
           = SlotCards(c_ranges[k].combos[n], c_ranges[k].player_count)

\* from_ranges returned a combined range of three players, from ranges of
\* which some combos share cards (fewer joint combos than the product)
C11_Witness ==
  /\ round = "returned" /\ Len(range_list) = 3 /\ joins = 2
  /\ c_ranges[1].player_count = 3
  /\ Len(c_ranges[1].combos) > 0
  /\ Len(c_ranges[1].combos)
       < Len(range_list[1]) * Len(range_list[2]) * Len(range_list[3])

\* the number of pairs of combos of a and b that hold four distinct cards
DisjointJoinSize(a, b) ==
  Cardinality({pr \in (DOMAIN a.combos) \X (DOMAIN b.combos) :
                 SlotCards(a.combos[pr[1]], a.player_count)
                   \cap SlotCards(b.combos[pr[2]], b.player_count) = {}})

\* the join sizes of all pairs of a list of combined ranges
JoinSizes(crs) ==
  {DisjointJoinSize(crs[i], crs[j]) : <<i, j>> \in {pr \in (DOMAIN crs) \X (DOMAIN crs) : pr[2] < pr[1]}}

\* the players listed by a list of combined ranges, with repetitions
PlayersOf(crs) ==
  [k \in DOMAIN crs |-> [s \in 0..(crs[k].player_count - 1) |-> crs[k].players[s]]]

\* each player 0..n-1 is listed once, in one combined range
EachPlayerOnce(crs, n) ==
  \A p \in 0..(n - 1) :
    Cardinality({<<k, s>> \in (DOMAIN crs) \X (0..(MAX_PLAYERS - 1)) :
                   s < crs[k].player_count /\ crs[k].players[s] = p}) = 1

\* what holds while from_ranges runs and when it has returned
RoundsState ==
  /\ round # "idle" =>
       /\ EachPlayerOnce(c_ranges, Len(range_list))
       /\ \A k \in DOMAIN c_ranges : Len(c_ranges[k].combos) <= MAX_SIZE
       /\ joins + Len(c_ranges) = Len(range_list)
  /\ round = "returned" =>
       /\ \A s \in JoinSizes(c_ranges) : s >= MAX_SIZE
       /\ c_ranges = from_ranges(range_list)

\* c_ranges' is c_ranges with the ranges at i and j (j < i, 1-based) replaced
\* by their join in the place of j
JoinedAt(i, j) ==
  /\ Len(c_ranges') = Len(c_ranges) - 1
  /\ \A k \in DOMAIN c_ranges' :
       IF k = j
       THEN /\ c_ranges'[k].player_count
                 = c_ranges[j].player_count + c_ranges[i].player_count
            /\ Len(c_ranges'[k].combos) = DisjointJoinSize(c_ranges[j], c_ranges[i])
            /\ PlayersOf(c_ranges')[k]
                 = [s \in 0..(c_ranges'[k].player_count - 1) |->
                      IF s < c_ranges[j].player_count THEN c_ranges[j].players[s]
                      ELSE c_ranges[i].players[s - c_ranges[j].player_count]]
       ELSE c_ranges'[k] = c_ranges[IF k < i THEN k ELSE k + 1]

\* one round: the smallest join is made if and only if it is below MAX_SIZE
RoundsStep ==
  round = "loop" =>
    IF \E s \in JoinSizes(c_ranges) : s < MAX_SIZE
    THEN /\ round' = "loop"
         /\ \E i \in DOMAIN c_ranges : \E j \in 1..(i - 1) :
              /\ \A s \in JoinSizes(c_ranges) :
                   DisjointJoinSize(c_ranges[i], c_ranges[j]) <= s
              /\ JoinedAt(i, j)
    ELSE round' = "returned" /\ c_ranges' = c_ranges

\* C12: from_ranges terminates (every round either returns or leaves one
\* combined range fewer, and the joins made plus the combined ranges left
\* always number the ranges given); each round joins a pair of combined
\* ranges with the smallest disjoint-join size if and only if that size is
\* below MAX_SIZE; on return no two remaining combined ranges have a join
\* size below MAX_SIZE, every combined range has at most MAX_SIZE combos,
\* and each player index is listed exactly once in exactly one combined
\* range.
C12_FromRangesRounds ==
  /\ []RoundsState
  /\ [][RoundsStep]_vars

\* from_ranges returned after a join, leaving two combined ranges whose
\* join would reach MAX_SIZE
C12_Witness ==
  /\ round = "returned" /\ joins >= 1 /\ Len(c_ranges) = 2
  /\ DisjointJoinSize(c_ranges[1], c_ranges[2]) >= MAX_SIZE

(***************************************************************************)
(* Hands built card by card (hand.rs): Hand::empty() and the additions of  *)
(* card constants and of from_hole_cards values, in every order.           *)
(***************************************************************************)
\* the number of cards of the decks explored
DeckSize == 12

\* the cards of a deck as <<rank, suit>>, before the suits are rotated:
\* seven cards of suit 0 with the ace-high straight among them, the other
\* deuces, another king and small cards
DeckOrder ==
  << <<12, 0>>, <<11, 0>>, <<10, 0>>, <<9, 0>>, <<8, 0>>, <<7, 0>>, <<0, 0>>,
     <<0, 1>>, <<0, 2>>, <<0, 3>>, <<11, 1>>, <<3, 1>>, <<1, 2>>, <<2, 3>>,
     <<12, 1>>, <<10, 1>>, <<11, 2>>, <<5, 3>> >>

\* the deck whose suits are those of DeckOrder plus rot
RotatedDeck(rot) ==
  [k \in 1..Min(DeckSize, Len(DeckOrder)) |->
     Card(DeckOrder[k][1], (DeckOrder[k][2] + rot) % SUIT_COUNT)]

\* the state outside the hand
not_hand_vars == <<calc_vars, join_vars, table_vars>>

\* a deck is chosen; the hand is Hand::empty()
Deal ==
  /\ deck = <<>>
  /\ \E rot \in 0..(SUIT_COUNT - 1) : deck' = RotatedDeck(rot)
  /\ UNCHANGED <<cards, hand>>
  /\ UNCHANGED not_hand_vars

\* hand + CARDS[c] (hand += CARDS[c]) for the k-th card of the deck
AddCard(k) ==
  /\ k \in DOMAIN deck
  /\ deck[k] \notin cards
  /\ Cardinality(cards) < MAX_CARDS
  /\ hand' = HandAdd(hand, CardHand(deck[k]))
  /\ cards' = cards \cup {deck[k]}
  /\ UNCHANGED deck
  /\ UNCHANGED not_hand_vars

\* hand + Hand::from_hole_cards(c1, c2), as evaluate_hands adds a player's
\* hole cards to the board, for the k1-th and k2-th cards of the deck
AddHoleCards(k1, k2) ==
  /\ k1 \in DOMAIN deck /\ k2 \in DOMAIN deck /\ k1 # k2
  /\ deck[k1] \notin cards /\ deck[k2] \notin cards
  /\ Cardinality(cards) + 2 <= MAX_CARDS
  /\ hand' = HandAdd(hand, HandFromHoleCards(deck[k1], deck[k2]))
  /\ cards' = cards \cup {deck[k1], deck[k2]}
  /\ UNCHANGED deck
  /\ UNCHANGED not_hand_vars

NextHand ==
  \/ Deal
  \/ \E k \in 1..DeckSize : AddCard(k)
  \/ \E k1, k2 \in 1..DeckSize : AddHoleCards(k1, k2)

SpecHand == Init /\ [][NextHand]_vars


(***************************************************************************)
(* Rank keys: hands built rank by rank.  The rank key does not depend on   *)
(* the suits, so the c-th card of a rank is given suit c - 1 and each rank *)
(* multiset of at most MAX_CARDS cards is reached as one hand.             *)
(***************************************************************************)
\* hand += CARDS[4 * r + s] for the next card of rank r
AddRank(r) ==
  /\ deck = <<>>
  /\ Cardinality(cards) < MAX_CARDS
  /\ Cardinality({c \in cards : RankOf(c) = r}) < SUIT_COUNT
  /\ LET c == Card(r, Cardinality({x \in cards : RankOf(x) = r}))
     IN /\ hand' = HandAdd(hand, CardHand(c))
        /\ cards' = cards \cup {c}
  /\ UNCHANGED deck
  /\ UNCHANGED not_hand_vars

NextKey == \E r \in 0..(RANK_COUNT - 1) : AddRank(r)

SpecKey == Init /\ [][NextKey]_vars

RECURSIVE RankKeys(_)
\* for every n up to MAX_CARDS, get_key(ranks, false) of every nibble word
\* of at most n cards of the ranks r and above, at most SUIT_COUNT of a
\* rank: c cards of rank r on top of a word of the ranks above r
RankKeys(r) ==
  IF r = RANK_COUNT THEN [n \in 0..MAX_CARDS |-> {0}]
  ELSE LET above == RankKeys(r + 1)
       IN [n \in 0..MAX_CARDS |->
             { p[1] * RANKS[r] + p[2] :
                 p \in UNION { {c} \X above[n - c] :
                               c \in 0..Min(SUIT_COUNT, n) } }] @@ <<>>

RECURSIVE RankWords(_)
\* the numbers of those nibble words
RankWords(r) ==
  IF r = RANK_COUNT THEN [n \in 0..MAX_CARDS |-> 1]
  ELSE LET above == RankWords(r + 1)
       IN [n \in 0..MAX_CARDS |->
             SumFn([c \in 0..Min(SUIT_COUNT, n) |-> above[n - c]],
                   0..Min(SUIT_COUNT, n))] @@ <<>>

AllRankKeys == RankKeys(0)[MAX_CARDS]

AllRankWords == RankWords(0)[MAX_CARDS]

(***************************************************************************)
(* The placement of the rows of a table, one row at a time.                *)
(***************************************************************************)
not_gen_vars == <<calc_vars, join_vars, hand_vars, prune, tot, parser, gate, brd, mcw>>

\* the rows of the tables explored and their columns and values
HashRows == 2
HashColumns == {0, 1, 4095}
HashValues == {0, 4097, 8193}

\* orig_lookup: one value, or none, for each column of each of the rows
SmallTables ==
  { [k \in {x \in DOMAIN cells : cells[x] # 0} |-> cells[k]] :
      cells \in [{r * (2 ^ PERF_HASH_ROW_SHIFT) + c :
                    r \in 0..(HashRows - 1), c \in HashColumns} -> HashValues] }

\* the keys below SliceEnd of the orig_lookup of generate_tables
SliceEnd == 64
TableSlice ==
  [k \in {x \in DOMAIN orig_lookup : x < SliceEnd * (2 ^ PERF_HASH_ROW_SHIFT)} |->
     orig_lookup[k]]

\* rows of three, two and one keys whose columns overlap
CrowdedTable ==
  (0 :> 8194) @@ (1 :> 4098) @@ (4096 :> 8193) @@ (4097 :> 8194) @@ (4098 :> 4098)
    @@ (8193 :> 12289) @@ (12288 :> 8193) @@ (12289 :> 4099) @@ (20481 :> 4100)

\* the first loop and the sort
StartPlacing ==
  /\ gen.phase = "idle"
  /\ \E orig \in SmallTables \cup {TableSlice, CrowdedTable} :
       gen' = [NoGen EXCEPT !.phase = "place", !.orig_lookup = orig,
                            !.rows = SortRows(RowsOf(orig))]
  /\ UNCHANGED not_gen_vars

\* one pass of `for row in &rows`
PlaceRow ==
  /\ gen.phase = "place"
  /\ gen.placed < Len(gen.rows)
  /\ gen' = PlaceAt(gen, gen.rows[gen.placed + 1],
                    FirstFit(gen, gen.rows[gen.placed + 1].keys))
  /\ UNCHANGED not_gen_vars

\* the end of calc_perfect_hash_offsets: the two resizes, orig_lookup is
\* freed and rows goes out of scope
FinishPlacing ==
  /\ gen.phase = "place"
  /\ gen.placed = Len(gen.rows)
  /\ gen' = [NoGen EXCEPT
               !.phase = "done",
               !.perf_hash_offsets =
                  [r \in {x \in DOMAIN gen.perf_hash_offsets : x < Len(gen.rows)} |->
                     gen.perf_hash_offsets[r]],
               !.rank_table =
                  [i \in {x \in DOMAIN gen.rank_table : x < gen.max_idx + 1} |->
                     gen.rank_table[i]],
               !.max_idx = gen.max_idx]
  /\ UNCHANGED not_gen_vars

NextHash == StartPlacing \/ PlaceRow \/ FinishPlacing

SpecHash == Init /\ [][NextHash]_vars

(***************************************************************************)
(* HandRange::remove_conflicting_combos on a range and a board mask, and   *)
(* on its own result.  prune holds the range as it was, the board mask and *)
(* the hands of the range now.                                             *)
(***************************************************************************)
not_prune_vars == <<calc_vars, join_vars, hand_vars, gen, tot, parser, gate, brd, mcw>>

\* the longest range of PruneCombos explored
PruneLen == 3

\* combos that share cards and differ in weight
PruneCombos ==
  { <<Card(12, 1), Card(12, 0), 100>>, <<Card(12, 1), Card(12, 0), 30>>,
    <<Card(12, 3), Card(12, 2), 50>>, <<Card(5, 1), Card(0, 0), 100>>,
    <<Card(7, 2), Card(1, 3), 1>> }

\* "AA": the six pairs of aces
AcesRange ==
  << <<Card(12, 1), Card(12, 0), 100>>, <<Card(12, 2), Card(12, 0), 100>>,
     <<Card(12, 3), Card(12, 0), 100>>, <<Card(12, 2), Card(12, 1), 100>>,
     <<Card(12, 3), Card(12, 1), 100>>, <<Card(12, 3), Card(12, 2), 100>> >>

PruneRanges ==
  UNION { [1..n -> PruneCombos] : n \in 0..PruneLen } \cup {AcesRange}

\* no card, "Ah2s3c", one card, and a river
PruneBoards ==
  { {}, {Card(12, 1), Card(0, 0), Card(1, 3)}, {Card(12, 0)},
    {Card(12, 3), Card(12, 2), Card(7, 2), Card(0, 0), Card(1, 3)} }

\* range.remove_conflicting_combos(board_mask)
RemoveConflicting ==
  /\ prune.phase = "idle"
  /\ \E range \in PruneRanges, board_mask \in PruneBoards :
       prune' = [phase |-> "once", range |-> range, board_mask |-> board_mask,
                 hands |-> remove_conflicting_combos(range, board_mask)]
  /\ UNCHANGED not_prune_vars

\* the same call on the range it left
RemoveAgain ==
  /\ prune.phase = "once"
  /\ prune' = [prune EXCEPT !.phase = "twice",
                            !.hands = remove_conflicting_combos(@, prune.board_mask)]
  /\ UNCHANGED not_prune_vars

NextPrune == RemoveConflicting \/ RemoveAgain

SpecPrune == Init /\ [][NextPrune]_vars

(***************************************************************************)
(* A Monte Carlo worker (sim_random_walk_monte_carlo) on ranges of one     *)
(* combo each and a full board, so that every trial is the same showdown:  *)
(* the batch counter of the winner mask, and the shared wins, wins_by_mask *)
(* and eval_count that update_results adds it to, as u64 words.  exceeded  *)
(* names the quantities whose exact value went above u64::MAX; such a step *)
(* ends in a panic (overflow checks on) or goes on with the wrapped word.  *)
(***************************************************************************)
not_tot_vars == <<calc_vars, join_vars, hand_vars, gen, prune, parser, gate, brd, mcw>>

\* merges of a worker before the stdev estimate must be below the target
MaxMerges == 4505

\* the hole cards of the players: KcKh, 4c4d, 5c5d, 6c6d, 7c7d, 8c8d
WalkHoleCards ==
  << <<Card(11, 3), Card(11, 1)>>, <<Card(2, 3), Card(2, 2)>>, <<Card(3, 3), Card(3, 2)>>,
     <<Card(4, 3), Card(4, 2)>>, <<Card(5, 3), Card(5, 2)>>, <<Card(6, 3), Card(6, 2)>> >>

\* AsKsQsJsTs, where all players tie, and 2s3h9dJcKd, where the first wins
WalkBoards ==
  { {Card(12, 0), Card(11, 0), Card(10, 0), Card(9, 0), Card(8, 0)},
    {Card(0, 0), Card(1, 1), Card(7, 2), Card(9, 3), Card(11, 2)} }

\* the weights given to the combos
WalkWeights == {1, 100}

\* winner_mask of evaluate_hands for the showdown of these hands on this
\* board, which every trial of the worker repeats
TrialMask(hands, n_players, board) ==
  WinnerMask([p \in 0..(n_players - 1) |->
                HandFromHoleCards(hands[p + 1][1], hands[p + 1][2])],
             n_players, HandFromCards(board), TRUE, 0, 0, 0)

\* combo_weights: [1u8; MAX_PLAYERS] with the weights of the players' combos
ComboWeights(t) ==
  [k \in 1..MAX_PLAYERS |-> IF k <= t.n_players THEN t.hands[k][3] ELSE 1]

\* MC_BATCH calls of evaluate_hands on a fresh batch:
\* wins_by_mask[winner_mask] += weight and eval_count += 1, each time
TrialBatch(t) ==
  LET weight == WeightProduct(ComboWeights(t), MAX_PLAYERS)
      mass == MulU64(weight.value, MC_BATCH)
  IN [batch |-> [wins_by_mask |-> mass.value, eval_count |-> MC_BATCH],
      exceeded |-> (IF weight.overflow THEN {"weight"} ELSE {})
                     \cup (IF mass.overflow THEN {"batch.wins_by_mask"} ELSE {})]

\* update_results on the u64 accumulators: wins of the single winner,
\* wins_by_mask of the winner mask, eval_count
MergeU64(acc, batch, mask) ==
  LET wins == IF PopCount(mask) = 1 THEN AddU64(acc.wins, batch.wins_by_mask)
              ELSE [value |-> acc.wins, overflow |-> FALSE]
      wins_by_mask == AddU64(acc.wins_by_mask, batch.wins_by_mask)
      eval_count == AddU64(acc.eval_count, U64(batch.eval_count))
  IN [results |-> [wins |-> wins.value, wins_by_mask |-> wins_by_mask.value,
                   eval_count |-> eval_count.value],
      exceeded |-> (IF wins.overflow THEN {"results.wins"} ELSE {})
                     \cup (IF wins_by_mask.overflow THEN {"results.wins_by_mask"} ELSE {})
                     \cup (IF eval_count.overflow THEN {"results.eval_count"} ELSE {})]

\* approx_equity starts the worker; randomize_hole_cards finds the one
\* selection there is
StartWalk ==
  /\ tot.phase = "idle"
  /\ \E n \in MIN_PLAYERS..MAX_PLAYERS, w \in WalkWeights, board \in WalkBoards :
       LET hands == [k \in 1..n |-> <<WalkHoleCards[k][1], WalkHoleCards[k][2], w>>]
       IN tot' = [NoTotals EXCEPT
                    !.phase = "walk", !.n_players = n, !.board = board, !.hands = hands,
                    !.winner_mask = TrialMask(hands, n, board)]
  /\ UNCHANGED not_tot_vars

\* one pass of the loop up to the batch boundary: MC_BATCH trials,
\* update_results(&batch, false), and the test of the stop flag, which is
\* raised when the stdev estimate is below the target
WalkBatch ==
  /\ tot.phase = "walk"
  /\ LET run == TrialBatch(tot)
         merge == MergeU64(tot.results, run.batch, tot.winner_mask)
         exceeded == run.exceeded \cup merge.exceeded
     IN \E below_target \in BOOLEAN, checked \in BOOLEAN :
          /\ tot.batch_count + 1 >= MaxMerges => below_target
          /\ exceeded = {} => ~checked
          /\ tot' = IF checked
                    THEN [tot EXCEPT !.phase = "panicked", !.batch = run.batch,
                                     !.exceeded = @ \cup exceeded]
                    ELSE [tot EXCEPT
                            !.phase = IF below_target THEN "final" ELSE "walk",
                            !.batch = IF below_target THEN run.batch
                                      ELSE NoTotals.batch,
                            !.results = merge.results,
                            !.batch_count = @ + 1,
                            !.stopped = below_target,
                            !.exceeded = @ \cup exceeded]
  /\ UNCHANGED not_tot_vars

\* update_results(&batch, true) after the loop
WalkFinal ==
  /\ tot.phase = "final"
  /\ LET merge == MergeU64(tot.results, tot.batch, tot.winner_mask)
     IN \E checked \in BOOLEAN :
          /\ merge.exceeded = {} => ~checked
          /\ tot' = IF checked
                    THEN [tot EXCEPT !.phase = "panicked",
                                     !.exceeded = @ \cup merge.exceeded]
                    ELSE [tot EXCEPT !.phase = "done", !.results = merge.results,
                                     !.exceeded = @ \cup merge.exceeded]
  /\ UNCHANGED not_tot_vars

NextWalk == StartWalk \/ WalkBatch \/ WalkFinal

SpecWalk == Init /\ [][NextWalk]_vars

(***************************************************************************)
(* HandRange::from_string on a text, one pass of its while loop at a time, *)
(* and add_combo called on a new range as the tests call it.               *)
(***************************************************************************)
not_parser_vars == <<calc_vars, join_vars, hand_vars, gen, prune, tot, gate, brd, mcw>>

\* the hands of the texts: pairs, suited, offsuited, both, plus forms and
\* explicit suits in both orders, of one card twice, and in capitals
HandTexts ==
  { <<"A", "A">>, <<"A", "K", "s">>, <<"a", "k", "o">>, <<"K", "Q">>,
    <<"Q", "Q", "+">>, <<"K", "T", "s", "+">>, <<"Q", "K", "+">>,
    <<"A", "s", "K", "s">>, <<"K", "s", "A", "s">>, <<"A", "s", "A", "h">>,
    <<"A", "S", "K", "D">>, <<"A", "s", "A", "s">>, <<"2", "c", "2", "d">> }

\* what follows a hand: nothing, or '@' and a number or none
WeightTexts ==
  { <<>>, <<"@", "0">>, <<"@">>, <<"@", "1">>, <<"@", "5", "0">>,
    <<"@", "1", "0", "0">>, <<"@", "1", "0", "1">> }

\* a hand that follows the comma of the texts of two hands
SecondTexts == { <<"A", "A">>, <<"A", "h", "A", "s", "@", "5", "0">>, <<"7", "2", "o">> }

\* the card indices add_combo is called with directly
DirectCards == {0, 1, 4, 51, 52, U8_MAX}

Texts ==
  { h \o w : h \in HandTexts, w \in WeightTexts }
    \cup { h \o w \o <<",">> \o g : h \in HandTexts, w \in WeightTexts, g \in SecondTexts }
    \cup { <<>>, <<"r", "a", "n", "d", "o", "m">> }

\* from_string up to its loop: add_all for "random", else char_vec
FromString ==
  /\ parser.phase = "idle"
  /\ \E text \in Texts :
       parser' =
         IF text = <<"r", "a", "n", "d", "o", "m">>
         THEN [NoParser EXCEPT !.phase = "done", !.text = text, !.hands = add_all]
         ELSE [NoParser EXCEPT
                 !.phase = "parse", !.text = text,
                 !.char_vec = [k \in 1..(Len(text) + 1) |->
                                 IF k <= Len(text) THEN to_lowercase(text[k]) ELSE " "]]
  /\ UNCHANGED not_parser_vars

\* `while range.parse_hand(&mut i) && range.parse_char(&mut i, ',') {}`: one
\* test of the condition
ParseHand ==
  /\ parser.phase = "parse"
  /\ LET read == parse_hand(parser.char_vec, parser.i, parser.hands)
         comma == read.ok /\ parser.char_vec[read.i] = ","
     IN parser' = [parser EXCEPT !.phase = IF comma THEN "parse" ELSE "parsed",
                                 !.i = IF comma THEN read.i + 1 ELSE read.i,
                                 !.hands = read.hands]
  /\ UNCHANGED not_parser_vars

\* range.remove_duplicates() at the end of from_string
RemoveDuplicates ==
  /\ parser.phase = "parsed"
  /\ parser' = [parser EXCEPT !.phase = "done", !.hands = remove_duplicates(@)]
  /\ UNCHANGED not_parser_vars

\* HandRange::new() and add_combo(c1, c2, 100)
AddComboDirect ==
  /\ parser.phase = "idle"
  /\ \E c1 \in DirectCards, c2 \in DirectCards :
       parser' = [NoParser EXCEPT !.phase = "direct", !.cards = <<c1, c2>>,
                                  !.hands = add_combo(<<>>, c1, c2, 100)]
  /\ UNCHANGED not_parser_vars

NextParse == FromString \/ ParseHand \/ RemoveDuplicates \/ AddComboDirect

SpecParse == Init /\ [][NextParse]_vars

(***************************************************************************)
(* The merges of a run as update_results sees them: each with the batch    *)
(* equity of player 0 and the flag `finished`.  gate.finished is the flag  *)
(* of the last merge and gate.stored whether that merge executed           *)
(* stopped.store(true).                                                    *)
(***************************************************************************)
not_gate_vars == <<calc_vars, join_vars, hand_vars, gen, prune, tot, parser, brd, mcw>>

\* merges of a run
MaxGateMerges == 4

\* stdev_target squared: 0, 1e-10, 3e-10, 1e-8 and 1/16, 1/4
GateTargets ==
  { [kind |-> "fine", square |-> v] : v \in {0, 1, 3, 100} }
    \cup { [kind |-> "coarse", square |-> v] : v \in {1, 4} }

\* the batch equities of player 0, in halves
GateEquities == {0, 1, 2}

\* Simulator::new: the mode, the target, the flag cleared
StartGate ==
  /\ gate.phase = "idle"
  /\ \E calc_exact \in BOOLEAN, target \in GateTargets :
       gate' = [NoGate EXCEPT !.phase = "run", !.calc_exact = calc_exact,
                              !.stdev_target = target]
  /\ UNCHANGED not_gate_vars

\* update_results(&batch, finished), from `if !self.calc_exact` on
GateMerge ==
  /\ gate.phase = "run"
  /\ gate.batch_count < MaxGateMerges
  /\ \E batch_equity \in GateEquities, finished \in BOOLEAN :
       gate' =
         IF gate.calc_exact
         THEN [gate EXCEPT !.finished = finished, !.stored = FALSE]
         ELSE LET sum == gate.batch_sum + batch_equity
                  sum2 == gate.batch_sum2 + batch_equity * batch_equity
                  count == gate.batch_count + 1
                  store == ~finished /\ StdevBelow(sum, sum2, count, gate.stdev_target)
              IN [gate EXCEPT !.batch_sum = sum, !.batch_sum2 = sum2,
                              !.batch_count = count,
                              !.stopped = @ \/ store,
                              !.finished = finished, !.stored = store]
  /\ UNCHANGED not_gate_vars

NextGate == StartGate \/ GateMerge

SpecGate == Init /\ [][NextGate]_vars

(***************************************************************************)
(* enumerate_board on its own: a call on the hole cards of 2..3 players    *)
(* and a board of 3..5 cards, as enumerate_all makes it without the        *)
(* lookup (a fresh batch, used_cards_mask = the board and the hole cards). *)
(***************************************************************************)
not_brd_vars == <<calc_vars, join_vars, hand_vars, gen, prune, tot, parser, gate, mcw>>

\* hole cards with weights: AsKs against QhJh; AhKd@2 against 7h7c@3;
\* AcAd against KhQh@50 against 8c8d
BoardHoleCards ==
  { << <<Card(12, 0), Card(11, 0), 1>>, <<Card(10, 1), Card(9, 1), 1>> >>,
    << <<Card(12, 1), Card(11, 2), 2>>, <<Card(5, 1), Card(5, 3), 3>> >>,
    << <<Card(12, 3), Card(12, 2), 1>>, <<Card(11, 1), Card(10, 1), 50>>,
       <<Card(6, 3), Card(6, 2), 1>> >> }

\* flops: 2h9hTh, 2c7d9s, 3s8sKc
BoardFlops ==
  { {Card(0, 1), Card(7, 1), Card(8, 1)},
    {Card(0, 3), Card(5, 2), Card(7, 0)},
    {Card(1, 0), Card(6, 0), Card(11, 3)} }

\* turn and river cards: 5h, 5c, Js, 6h, 4s, 4d
BoardExtras == {Card(3, 1), Card(3, 3), Card(9, 0), Card(4, 1), Card(2, 0), Card(2, 2)}

\* a board of two cards, 9hTh, for AsKs against QhJh
BoardDeep ==
  { << << <<Card(12, 0), Card(11, 0), 1>>, <<Card(10, 1), Card(9, 1), 1>> >>,
       {Card(7, 1), Card(8, 1)} >> }

\* the calls: hole cards and a board of 3..5 cards that has none of them,
\* and the deep one
BoardInputs ==
  { in \in { <<hole, flop \cup extra>> : hole \in BoardHoleCards, flop \in BoardFlops,
                                          extra \in SUBSET BoardExtras } :
      /\ Cardinality(in[2]) <= BOARD_CARDS
      /\ \A i \in 1..Len(in[1]) : {in[1][i][1], in[1][i][2]} \cap in[2] = {} }
    \cup BoardDeep

\* enumerate_all has drawn the hole cards for a flat index
DealBoard ==
  /\ brd.phase = "idle"
  /\ \E in \in BoardInputs :
       LET hole == in[1]
       IN brd' = [NoBoard EXCEPT
                    !.phase = "dealt",
                    !.player_hands = [i \in 0..(Len(hole) - 1) |-> hole[i + 1]],
                    !.n_players = Len(hole),
                    !.weight = WeightOf([i \in 0..(Len(hole) - 1) |->
                                           [cards |-> hole[i + 1]]], Len(hole)),
                    !.board = in[2]]
  /\ UNCHANGED not_brd_vars

\* self.enumerate_board(&player_hands, weight, &self.fixed_board,
\* used_cards_mask, &mut stats)
RunEnumerateBoard ==
  /\ brd.phase = "dealt"
  /\ LET used == brd.board \cup UNION {{brd.player_hands[i][1], brd.player_hands[i][2]} :
                                         i \in 0..(brd.n_players - 1)}
         es == EnumerateBoard(brd.player_hands, brd.n_players, brd.weight,
                              HandFromCards(brd.board), used,
                              BatchInit(brd.n_players), TRUE)
     IN brd' = [brd EXCEPT !.phase = "enumerated", !.stats = es.stats,
                           !.shapes = es.shapes]
  /\ UNCHANGED not_brd_vars

NextBoard == DealBoard \/ RunEnumerateBoard

SpecBoard == Init /\ [][NextBoard]_vars

(***************************************************************************)
(* One Monte Carlo worker trial by trial, up to MaxTrials trials of its    *)
(* first batch.  The combined ranges are those from_ranges builds for two  *)
(* ranges of all 120 pairs of the 16 highest cards (two combined ranges    *)
(* that share cards), and for these two with the single combo 7c7d as      *)
(* third range (the third is joined to the first: players 0 and 2).        *)
(***************************************************************************)
not_mcw_vars == <<calc_vars, join_vars, hand_vars, gen, prune, tot, parser, gate, brd>>

\* trials of the worker that are followed
MaxTrials == 2

\* the batches of a worker that end with a re-seeding
MaxReseeds == 1

\* Ac down to Js
SixteenCards == [k \in 1..16 |-> CARD_COUNT - k]

TrialRangesTwo ==
  from_ranges(<< AllPairs(SixteenCards, 2), AllPairs(SixteenCards, 3) >>)

TrialRangesThree ==
  from_ranges(<< AllPairs(SixteenCards, 2), AllPairs(SixteenCards, 3),
                 << <<Card(5, 3), Card(5, 2), 7>> >> >>)

\* the combined ranges and the number of players of an input
TrialRanges(input) == IF input = 1 THEN TrialRangesTwo ELSE TrialRangesThree
TrialPlayers(input) == IF input = 1 THEN 2 ELSE 3

\* the fixed board of an input: 2s3h4d5c for two players, 2s3h4d for three
TrialBoard(input) ==
  IF input = 1 THEN {Card(0, 0), Card(1, 1), Card(2, 2), Card(3, 3)}
  ELSE {Card(0, 0), Card(1, 1), Card(2, 2)}

\* the combo indexes the generator draws for the two combined ranges in
\* one attempt: three free selections and one that shares a card
TrialDraws == { <<0, 119>>, <<119, 0>>, <<1, 119>>, <<0, 0>> }

\* the cards the generator samples for the board: 2s, Ac, 6h, 7d, 8h
SampleCards == {Card(0, 0), Card(12, 3), Card(4, 1), Card(5, 2), Card(6, 1)}

\* the sample sequences of a trial: one sample more than cards to deal
SampleStreams(cards_remaining) == [1..(cards_remaining + 1) -> SampleCards]

RECURSIVE TrialWeight(_, _)
\* `for c in &combo_weights { weight *= u64::from(*c) }`
TrialWeight(combo_weights, i) ==
  IF i >= MAX_PLAYERS THEN 1 ELSE combo_weights[i] * TrialWeight(combo_weights, i + 1)

\* the worker starts: batch, locals
StartWorker ==
  /\ mcw.pc = "idle"
  /\ \E input \in 1..2 :
       mcw' = [NoWorker EXCEPT !.pc = "seed", !.input = input,
                               !.crs = TrialRanges(input),
                               !.board_mask = TrialBoard(input),
                               !.batch = BatchInit(TrialPlayers(input))]
  /\ UNCHANGED not_mcw_vars

\* one pass of the `for _ in 0..1000` loop of randomize_hole_cards, with
\* its return when the pass succeeds or was the last; attempts is the loop
\* counter, which is gone once the function returned true
SeedAttempt ==
  /\ mcw.pc = "seed" /\ mcw.attempts < SEED_ATTEMPTS
  /\ \E draw \in TrialDraws :
       LET w == HoleCardsAttempt(mcw.crs, mcw.board_mask, draw, mcw.w)
       IN mcw' = [mcw EXCEPT !.w = w,
                             !.attempts = IF w.ok THEN 0 ELSE @ + 1,
                             !.pc = IF w.ok THEN "trial"
                                    ELSE IF mcw.attempts + 1 = SEED_ATTEMPTS THEN "final"
                                    ELSE "seed"]
  /\ UNCHANGED not_mcw_vars

\* a trial away from the batch boundary: the weight, randomize_board,
\* evaluate_hands
RunTrial ==
  /\ mcw.pc = "trial" /\ mcw.batch.eval_count < MaxTrials
  /\ (mcw.batch.eval_count + 1) % MC_BATCH # 0
  /\ LET n == TrialPlayers(mcw.input)
         cards_remaining == BOARD_CARDS - Cardinality(mcw.board_mask)
         weight == TrialWeight(mcw.w.combo_weights, 0)
         hands == [p \in 0..(n - 1) |-> mcw.w.player_hands[p]]
     IN \E samples \in SampleStreams(cards_remaining) :
          LET dealt == randomize_board(samples, HandFromCards(mcw.board_mask),
                                       mcw.w.used_cards_mask, cards_remaining)
          IN /\ dealt.complete
             /\ mcw' = [mcw EXCEPT
                          !.board = dealt.board, !.weight = weight,
                          !.before = mcw.batch,
                          !.batch = evaluate_hands(hands, n, weight, dealt.board, @, TRUE),
                          !.pc = "walk"]
  /\ UNCHANGED not_mcw_vars

\* the rest of a batch whose trial counter reached the bound: the trial
\* that makes eval_count a multiple of 4096, update_results(&batch, false),
\* the load of a clear stop flag, the reset of the batch and the entry to
\* randomize_hole_cards; board and weight are locals of one pass
BatchEnd ==
  /\ mcw.pc = "trial" /\ mcw.batch.eval_count = MaxTrials
  /\ Len(mcw.merges) < MaxReseeds
  /\ mcw' = [mcw EXCEPT !.pc = "seed", !.attempts = 0,
                        !.merges = Append(@, MC_BATCH),
                        !.batch = BatchInit(TrialPlayers(mcw.input)),
                        !.board = HandEmpty, !.weight = 0, !.walked = 0]
  /\ UNCHANGED not_mcw_vars

\* the random-walk step that ends the pass of the loop
RandomWalk ==
  /\ mcw.pc = "walk"
  /\ \E r \in 1..Len(mcw.crs) :
       mcw' = [mcw EXCEPT !.w = WalkOnRange(mcw.crs, r, @),
                          !.before = BatchInit(0),
                          !.walked = r, !.pc = "trial"]
  /\ UNCHANGED not_mcw_vars

\* update_results(&batch, true) and the return of the worker
WorkerReturn ==
  /\ mcw.pc = "final"
  /\ mcw' = [mcw EXCEPT !.pc = "done", !.merges = Append(@, mcw.batch.eval_count)]
  /\ UNCHANGED not_mcw_vars

NextTrial ==
  StartWorker \/ SeedAttempt \/ RunTrial \/ RandomWalk \/ BatchEnd \/ WorkerReturn

SpecTrial == Init /\ [][NextTrial]_vars

(***************************************************************************)
(* Properties of hands and of the evaluation tables.                       *)
(***************************************************************************)
\* the cards of suit s in the hand
SuitCards(s) == {c \in cards : SuitOf(c) = s}

\* the category of five cards, 1 high card .. 9 straight flush
Category5(five) ==
  LET ranks == {RankOf(c) : c \in five}
      of_rank(r) == Cardinality({c \in five : RankOf(c) = r})
      flush == \E s \in 0..(SUIT_COUNT - 1) : \A c \in five : SuitOf(c) = s
      straight == /\ Cardinality(ranks) = 5
                  /\ \/ \E low \in 0..(RANK_COUNT - 5) : ranks = low..(low + 4)
                     \/ ranks = {12, 0, 1, 2, 3}
  IN IF flush /\ straight THEN 9
     ELSE IF \E r \in ranks : of_rank(r) = 4 THEN 8
     ELSE IF Cardinality(ranks) = 2 THEN 7
     ELSE IF flush THEN 6
     ELSE IF straight THEN 5
     ELSE IF \E r \in ranks : of_rank(r) = 3 THEN 4
     ELSE IF Cardinality(ranks) = 3 THEN 3
     ELSE IF Cardinality(ranks) = 4 THEN 2
     ELSE 1

\* the category of the best five cards of cs
Category(cs) ==
  MaxOf({Category5(five) : five \in {x \in SUBSET cs : Cardinality(x) = 5}})

\* C13: Hand addition is commutative and associative, so the hand reached
\* by adding up to seven distinct cards to Hand::empty(), one at a time or
\* two at a time as from_hole_cards values and in whatever order, is the
\* hand of that set of cards, and evaluate returns the score of that set.
C13_AdditionOrder ==
  /\ hand = HandFromCards(cards)
  /\ \A k \in DOMAIN deck :
       LET a == CardHand(deck[k])
           b == CardHand(deck[(k % Len(deck)) + 1])
       IN /\ HandAdd(a, b) = HandAdd(b, a)
          /\ HandAdd(hand, a) = HandAdd(a, hand)
          /\ HandAdd(HandAdd(hand, a), b) = HandAdd(hand, HandAdd(a, b))
  /\ Cardinality(cards) >= MIN_CARDS =>
       EvaluatorEvaluate(hand) = EvaluatorEvaluate(HandFromCards(cards))

\* seven cards have been added, five of them of one suit
C13_Witness ==
  /\ Cardinality(cards) = MAX_CARDS
  /\ hand = HandFromCards(cards)
  /\ \E s \in 0..(SUIT_COUNT - 1) : Cardinality(SuitCards(s)) = 5

\* C14: for every seven-card hand the top four bits of evaluate (score >>
\* 12) are the category of its best five cards, 1 high card .. 9 straight
\* flush, so that a hand of a higher category scores strictly higher than
\* a hand of a lower one; the four-card hand 2s2h2d2c evaluates to 32769.
C14_CategoryBits ==
  /\ Cardinality(cards) = MAX_CARDS =>
       EvaluatorEvaluate(hand) \div (2 ^ HAND_CATEGORY_SHIFT) = Category(cards)
  /\ cards = {Card(0, s) : s \in 0..(SUIT_COUNT - 1)} =>
       EvaluatorEvaluate(hand) = 32769

\* a seven-card hand that holds the four deuces
C14_Witness ==
  /\ Cardinality(cards) = MAX_CARDS
  /\ {Card(0, s) : s \in 0..(SUIT_COUNT - 1)} \subseteq cards
  /\ EvaluatorEvaluate(hand) \div (2 ^ HAND_CATEGORY_SHIFT) = 8

\* C15: for a hand of up to seven distinct cards added to Hand::empty(),
\* count() is the number of cards and the popcount of the mask word,
\* suit_count(s) is the number of cards of suit s, has_flush() holds iff
\* some suit has five cards or more, and no field of the key word carries
\* into its neighbour: the counter field holds the count alone, the rank
\* key is the sum of RANKS, the suit field is 3 + count in every nibble.
C15_Counters ==
  /\ HandCount(hand) = Cardinality(cards)
  /\ Cardinality(hand.mask) = Cardinality(cards)
  /\ \A s \in 0..(SUIT_COUNT - 1) :
       HandSuitCount(hand, s) = Cardinality(SuitCards(s))
  /\ HandHasFlush(hand) <=>
       \E s \in 0..(SUIT_COUNT - 1) : Cardinality(SuitCards(s)) >= 5
  /\ hand.k2 = Cardinality(cards)
  /\ HandRankKey(hand) = SumFn([c \in cards |-> RANKS[RankOf(c)]], cards)
  /\ hand.k3 = SumFn([s \in 0..(SUIT_COUNT - 1) |->
                        (3 + Cardinality(SuitCards(s))) * (16 ^ s)],
                     0..(SUIT_COUNT - 1))

\* seven cards, all of one suit
C15_Witness ==
  /\ HandCount(hand) = MAX_CARDS
  /\ \E s \in 0..(SUIT_COUNT - 1) : HandSuitCount(hand, s) = MAX_CARDS

\* C16: for a hand of up to seven distinct cards added to Hand::empty(),
\* get_flush_key() is the set of the ranks held in the suit that has five
\* cards or more (bit r set iff the card of rank r of that suit is in the
\* hand), and 0 when no suit has five cards.
C16_FlushKey ==
  IF \E s \in 0..(SUIT_COUNT - 1) : Cardinality(SuitCards(s)) >= 5
  THEN \E s \in 0..(SUIT_COUNT - 1) :
         /\ Cardinality(SuitCards(s)) >= 5
         /\ HandFlushKey(hand) = {RankOf(c) : c \in SuitCards(s)}
  ELSE HandFlushKey(hand) = {}

\* five cards of a suit other than the last one and two cards of other
\* suits
C16_Witness ==
  /\ Cardinality(cards) = MAX_CARDS
  /\ \E s \in 0..(SUIT_COUNT - 2) :
       /\ Cardinality(SuitCards(s)) = 5
       /\ HandFlushKey(hand) = {RankOf(c) : c \in SuitCards(s)}
       /\ Cardinality(HandFlushKey(hand)) = 5

\* C17: RANKS is collision free: two different rank multisets of at most
\* seven cards, at most four of a rank, have different sums of RANKS[r]
\* (there are as many sums as multisets, and the key of every hand is one
\* of them), and every sum is at most 4 * RANKS[12] + 3 * RANKS[11], so
\* the rank key stays in the low 32 bits of the key word and the card
\* counter above it holds the count alone.
C17_RankKeys ==
  /\ Cardinality(AllRankKeys) = AllRankWords
  /\ HandRankKey(hand) \in AllRankKeys
  /\ HandRankKey(hand) =
       get_key([r \in 0..(RANK_COUNT - 1) |-> RankCount(hand, r)], FALSE)
  /\ HandRankKey(hand) <= 4 * RANKS[12] + 3 * RANKS[11]
  /\ hand.k2 = Cardinality(cards)

\* the four aces and three kings: the largest key
C17_Witness ==
  /\ Cardinality(cards) = MAX_CARDS
  /\ deck = <<>>
  /\ RankCount(hand, 12) = 4 /\ RankCount(hand, 11) = 3
  /\ HandRankKey(hand) = 4 * RANKS[12] + 3 * RANKS[11]

\* the keys of the rows placed so far
PlacedKeys(g) ==
  UNION { {g.rows[j].keys[i] : i \in DOMAIN g.rows[j].keys} : j \in 1..g.placed }

\* rank_table[perf_hash(key)] as Evaluator::evaluate reads it
ReadBack(g, key) == ReadAt(g.rank_table, perf_hash(g.perf_hash_offsets, key))

\* the offset of a row, from the entry of perf_hash_offsets written for it
RowOffset(g, idx) ==
  AsUsize(WrappingAdd(OffsetAt(g.perf_hash_offsets, idx),
                      AsU32(idx * (2 ^ PERF_HASH_ROW_SHIFT))))

\* C18: placing a row takes the smallest offset at which every slot of the
\* row is empty or holds the value of its key already, after it every key
\* placed so far reads back the value of orig_lookup, and the keys placed
\* before read back what they read before; when calc_perfect_hash_offsets
\* returns, every populated key k reads back from
\* rank_table[(k + perf_hash_offsets[k >> 12]) mod 2^32] the value that
\* orig_lookup[k] held.
C18_PerfectHash ==
  [][/\ (gen.phase = "place" /\ gen'.phase = "place") =>
          LET row == gen.rows[gen.placed + 1]
              offset == RowOffset(gen', row.idx)
              Free(o) == \A j \in DOMAIN row.keys :
                           ReadAt(gen.rank_table, Column(row.keys[j]) + o)
                             \in {0, gen.orig_lookup[row.keys[j]]}
          IN /\ gen'.placed = gen.placed + 1
             /\ Free(offset)
             /\ \A o \in 0..(offset - 1) : ~Free(o)
             /\ \A k \in PlacedKeys(gen') : ReadBack(gen', k) = gen.orig_lookup[k]
             /\ \A k \in PlacedKeys(gen) : ReadBack(gen', k) = ReadBack(gen, k)
     /\ (gen.phase = "place" /\ gen'.phase = "done") =>
          /\ PlacedKeys(gen) = DOMAIN gen.orig_lookup
          /\ \A k \in DOMAIN gen.orig_lookup :
               /\ gen.orig_lookup[k] # 0
               /\ ReadBack(gen', k) = gen.orig_lookup[k]]_vars

\* every row of a table of at least three rows is placed, one of two keys
\* or more at an offset that is not the first, one row has no key and its
\* entry of perf_hash_offsets wraps, and two keys share a slot
C18_Witness ==
  /\ gen.phase = "place"
  /\ gen.placed = Len(gen.rows)
  /\ Len(gen.rows) >= 3
  /\ \E j \in DOMAIN gen.rows :
       Len(gen.rows[j].keys) >= 2 /\ RowOffset(gen, gen.rows[j].idx) > 0
  /\ \E j \in DOMAIN gen.rows :
       gen.rows[j].keys = <<>> /\ gen.perf_hash_offsets[gen.rows[j].idx].hi = LIMB - 1
  /\ \E k1, k2 \in DOMAIN gen.orig_lookup :
       k1 # k2 /\ perf_hash(gen.perf_hash_offsets, k1) = perf_hash(gen.perf_hash_offsets, k2)

\* the positions of a range whose combo has no card of the board
FreeOfBoard(range, board_mask) ==
  {i \in DOMAIN range : range[i][1] \notin board_mask /\ range[i][2] \notin board_mask}

\* the j-th smallest element of a set of positions
NthOf(S, j) == CHOOSE i \in S : Cardinality({x \in S : x < i}) = j - 1

\* C19: remove_conflicting_combos(board_mask) leaves exactly the combos of
\* the range that have neither card in board_mask, in the order they had
\* and with the weights they had; called again with the same board it
\* changes nothing.
C19_RetainFree ==
  /\ [](prune.phase # "idle" =>
         LET free == FreeOfBoard(prune.range, prune.board_mask)
         IN /\ Len(prune.hands) = Cardinality(free)
            /\ \A j \in DOMAIN prune.hands : prune.hands[j] = prune.range[NthOf(free, j)])
  /\ [][prune.phase = "once" => prune'.hands = prune.hands]_vars

\* "AA" on the board Ah2s3c: three of the six combos are left, twice
C19_Witness ==
  /\ prune.phase = "twice"
  /\ prune.range = AcesRange
  /\ prune.board_mask = {Card(12, 1), Card(0, 0), Card(1, 3)}
  /\ Len(prune.hands) = 3

\* C20: in a worker no product or sum goes above u64::MAX: not the product
\* of the players' weights, not a batch counter, not the shared wins,
\* wins_by_mask and eval_count.
C20_ArithmeticTotal == tot.exceeded = {}

\* C21: every Combo of a range that from_string built has two distinct
\* cards in 0..51, the card of higher rank first and on equal ranks the card
\* of higher suit first, and a weight in 1..100, which is 100 when the text
\* gives no '@' weight; add_combo pushes nothing when a card index is above
\* 51 or the two cards are equal.
C21_CombosWellFormed ==
  /\ parser.phase = "done" =>
       \A k \in DOMAIN parser.hands :
         LET c == parser.hands[k]
         IN /\ c[1] \in 0..(CARD_COUNT - 1) /\ c[2] \in 0..(CARD_COUNT - 1)
            /\ c[1] # c[2]
            /\ \/ RankOf(c[1]) > RankOf(c[2])
               \/ RankOf(c[1]) = RankOf(c[2]) /\ SuitOf(c[1]) > SuitOf(c[2])
            /\ c[3] \in 1..100
            /\ (\A j \in DOMAIN parser.text : parser.text[j] # "@") => c[3] = 100
  /\ parser.phase = "direct" =>
       /\ (parser.cards[1] > 51 \/ parser.cards[2] > 51 \/ parser.cards[1] = parser.cards[2])
            => parser.hands = <<>>
       /\ Len(parser.hands) <= 1

\* C22: in Monte Carlo mode every merge adds the batch equity of player 0
\* to the running sum, its square to the sum of squares and one to the
\* count; the merge sets the stop flag when, and only when, it is not the
\* final one and sqrt(max(0, sum2/count - (sum/count)^2)) / sqrt(count) is
\* below stdev_target; a final merge never sets it.
C22_ConvergenceGate ==
  (gate.phase = "run" /\ ~gate.calc_exact /\ gate.batch_count >= 1) =>
    /\ gate.stored <=>
         (~gate.finished
          /\ PlainStdevBelow(gate.batch_sum, gate.batch_sum2, gate.batch_count,
                             gate.stdev_target))
    /\ gate.finished => ~gate.stored
    /\ gate.stored => gate.stopped
    /\ gate.batch_sum <= 2 * gate.batch_count
    /\ gate.batch_sum2 <= 4 * gate.batch_count

RECURSIVE SelectedCombo(_, _, _)
SelectedCombo(crs, i, idx) ==
  IF i = 1 THEN crs[1].combos[(idx % size(crs[1])) + 1]
  ELSE SelectedCombo(Tail(crs), i - 1, idx \div size(crs[1]))

\* C24: for every flat index a worker of exact enumeration is about to
\* process, if the selected combos are disjoint from each other and from the
\* board, then for every combined range i and local slot j, player_hands of
\* player players[j] holds the hole cards and the weight of slot j of the
\* combo selected in range i, and that player's index
C24_OwnHoleCards ==
  (phase = "running" /\ sim.calc_exact) =>
    \A t \in Threads :
      th[t].pc = "body" =>
        LET crs == sim.combined_ranges
            a == AssignHands(crs, 1, th[t].enum_pos, sim.board_mask,
                             [i \in 0..(MAX_PLAYERS - 1) |-> HandWithIndexDefault])
        IN a.ok =>
             \A i \in 1..Len(crs) : \A j \in 0..(crs[i].player_count - 1) :
               LET p == crs[i].players[j]
               IN a.hands[p] = [cards |-> SelectedCombo(crs, i, th[t].enum_pos).hole_cards[j],
                                player_idx |-> p]

\* the cards of a hand, from the bits of its mask word
BoardCards(h) == {4 * (b % 16) + (3 - (b \div 16)) : b \in h.mask}

RECURSIVE Picks(_)
\* the ways to take from each group as many cards as the call put on the
\* board from it
Picks(groups) ==
  IF groups = <<>> THEN {{}}
  ELSE LET g == Head(groups)
           k == Cardinality(g.chosen)
       IN {a \cup b : a \in {x \in SUBSET g.cards : Cardinality(x) = k},
                      b \in Picks(Tail(groups))}

\* the concrete boards that one call of evaluate_hands stands for
Represented(shape) ==
  LET fixed == BoardCards(shape.board)
                 \ UNION {shape.groups[i].chosen : i \in DOMAIN shape.groups}
  IN {fixed \cup x : x \in Picks(shape.groups)}

RECURSIVE SumRange(_, _, _)
\* f[lo] + ... + f[hi]
SumRange(f, lo, hi) ==
  IF lo > hi THEN 0
  ELSE IF lo = hi THEN f[lo]
  ELSE LET mid == (lo + hi) \div 2
       IN SumRange(f, lo, mid) + SumRange(f, mid + 1, hi)

RECURSIVE Binomial(_, _)
Binomial(n, k) ==
  IF k = 0 THEN 1 ELSE IF n < k THEN 0
  ELSE Binomial(n - 1, k - 1) + Binomial(n - 1, k)

\* the hands of the players of brd
BoardHands == [i \in 0..(brd.n_players - 1) |->
                 HandFromHoleCards(brd.player_hands[i][1], brd.player_hands[i][2])]

\* the cards that are neither on the board nor in a player's hand
BoardUnused ==
  (0..(CARD_COUNT - 1)) \ (brd.board \cup UNION {{brd.player_hands[i][1], brd.player_hands[i][2]} :
                                                  i \in 0..(brd.n_players - 1)})

\* C25: after enumerate_board, every call of evaluate_hands it made stands
\* for as many concrete boards as its multiplier says, each of them a
\* completion of the board from the unused cards whose real winner mask is
\* the mask credited; the boards of different calls are different and there
\* are C(52 - |board| - 2 n_players, k) of them; and the batch holds W times
\* that number, per mask W times the number of boards with that winner mask
C25_BoardsOnce ==
  brd.phase = "enumerated" =>
    LET n == brd.n_players
        k == BOARD_CARDS - Cardinality(brd.board)
        total == Binomial(CARD_COUNT - Cardinality(brd.board) - 2 * n, k)
        boards == [j \in DOMAIN brd.shapes |-> Represented(brd.shapes[j])]
        credited == [j \in DOMAIN brd.shapes |->
                       WinnerMask(BoardHands, n, brd.shapes[j].board,
                                  brd.shapes[j].flush_possible, 0, 0, 0)]
    IN /\ \A j \in DOMAIN brd.shapes :
            /\ brd.shapes[j].weight = brd.weight * Cardinality(boards[j])
            /\ \A B \in boards[j] :
                 /\ Cardinality(B) = BOARD_CARDS /\ brd.board \subseteq B
                 /\ (B \ brd.board) \subseteq BoardUnused
                 /\ WinnerMask(BoardHands, n, HandFromCards(B), TRUE, 0, 0, 0) = credited[j]
       /\ SumRange([j \in DOMAIN brd.shapes |-> Cardinality(boards[j])],
                   1, Len(brd.shapes)) = total
       /\ Cardinality(UNION {boards[j] : j \in DOMAIN brd.shapes}) = total
       /\ brd.stats.eval_count = Len(brd.shapes)
       /\ \A m \in DOMAIN brd.stats.wins_by_mask :
            brd.stats.wins_by_mask[m] =
              brd.weight * Cardinality({B \in UNION {boards[j] : j \in DOMAIN brd.shapes} :
                                          WinnerMask(BoardHands, n, HandFromCards(B), TRUE, 0, 0, 0) = m})
       /\ SumFn(brd.stats.wins_by_mask, DOMAIN brd.stats.wins_by_mask) = brd.weight * total

\* enumerate_board ran on a flop with weight above 1 and made a call that
\* stands for boards of two groups of same-rank cards
C25_Witness ==
  /\ brd.phase = "enumerated" /\ Cardinality(brd.board) = 3 /\ brd.weight > 1
  /\ \E j \in DOMAIN brd.shapes :
       /\ Len(brd.shapes[j].groups) = 2
       /\ Cardinality(Represented(brd.shapes[j])) > 4

\* with the board B no player of brd has five or more cards of a suit of
\* `suits` among the seven cards
NoFlushIn(B, suits) ==
  \A i \in 0..(brd.n_players - 1) : \A s \in suits :
    Cardinality({c \in B \cup {brd.player_hands[i][1], brd.player_hands[i][2]} :
                   SuitOf(c) = s}) < 5

NothingStarted ==
  /\ sim = NoSim /\ work = <<>> /\ th = <<>> /\ stopped = FALSE
  /\ results = ResultsInit(0) /\ lookup_table = <<>> /\ enum_pos = 0
  /\ reserved = <<>> /\ visited = {} /\ trials = NoTrials

\* the arguments of the call fail one of the three checks
BadArgs ==
  \/ Len(args.hand_ranges) < MIN_PLAYERS
  \/ Len(args.hand_ranges) > MAX_PLAYERS
  \/ Cardinality(args.board_mask) > BOARD_CARDS

\* C1: a call of exact_equity or approx_equity with fewer than 2 ranges
\* returns Err(TooFewPlayers), otherwise with more than 6 ranges
\* Err(TooManyPlayers), otherwise with more than 5 board cards
\* Err(TooManyBoardCards); the error is a returned value and nothing was
\* pruned, built or started; no call with such arguments ever runs workers
C1_ArgumentErrors ==
  /\ phase = "running" => ~BadArgs
  /\ (phase = "returned" /\ BadArgs) =>
       /\ ret.kind = "Err"
       /\ ret.err = (IF Len(args.hand_ranges) < MIN_PLAYERS THEN "TooFewPlayers"
                     ELSE IF Len(args.hand_ranges) > MAX_PLAYERS THEN "TooManyPlayers"
                     ELSE "TooManyBoardCards")
       /\ NothingStarted

\* approx_equity returned for seven ranges and a board of six cards: both
\* the player check and the board check fail, the player check answers
C1_Witness ==
  /\ phase = "returned" /\ ~args.calc_exact
  /\ Len(args.hand_ranges) > MAX_PLAYERS /\ Cardinality(args.board_mask) > BOARD_CARDS
  /\ ret.err = "TooManyPlayers"

\* the arguments pass the checks and some combined range is empty
EmptyAfterJoin ==
  /\ ~BadArgs
  /\ HasEmptyRange(from_ranges(Prune(args.hand_ranges, args.board_mask)))

\* C2: when, after the combos that conflict with the board are removed and
\* from_ranges has joined the ranges, some combined range is empty, the call
\* returns Err(ConflictingRanges) and starts no worker; every combined range
\* of a Simulator whose workers run has at least one combo
C2_ConflictingRanges ==
  /\ (phase = "returned" /\ prev.kind = "none" /\ EmptyAfterJoin) =>
       /\ ret.kind = "Err" /\ ret.err = "ConflictingRanges"
       /\ NothingStarted
  /\ (phase = "returned" /\ ret.err = "ConflictingRanges") => EmptyAfterJoin
  /\ phase = "running" =>
       /\ \A k \in 1..Len(sim.sizes) : sim.sizes[k] >= 1
       /\ \A k \in 1..Len(sim.combined_ranges) : size(sim.combined_ranges[k]) >= 1

\* exact_equity returned Err(ConflictingRanges) for two ranges that are both
\* non-empty after the board is removed and share a card in every pairing
C2_Witness ==
  /\ phase = "returned" /\ args.calc_exact /\ ret.err = "ConflictingRanges"
  /\ \A k \in 1..Len(args.hand_ranges) :
       Prune(args.hand_ranges, args.board_mask)[k] # <<>>


\* the players of the Simulator and the accumulated total of wins + ties
Players == 0..(sim.n_players - 1)
EquityTotal(r) == SumFn([p \in DOMAIN r.wins |-> r.wins[p] + r.ties[p]], DOMAIN r.wins)
MaskTotal(r) == SumFn(r.wins_by_mask, DOMAIN r.wins_by_mask)

\* C3: whenever exact_equity or approx_equity returns Ok (2..6 ranges, at
\* most 5 board cards, n_threads >= 1), the accumulated total of
\* wins[p] + ties[p] is strictly positive, each returned equity is
\* (wins[p] + ties[p]) / total, and the returned equities sum to 1
C3_EquitiesSumToOne ==
  (phase = "returned" /\ ret.kind = "Ok") =>
    /\ EquityTotal(results) > 0
    /\ \A p \in Players :
         ret.equity[p] = <<results.wins[p] + results.ties[p], EquityTotal(results)>>
    /\ SumFn([p \in Players |-> ret.equity[p][1]], Players) = ret.equity[0][2]

\* C6: when approx_equity returns, every evaluated trial has been merged
\* exactly once: results.eval_count is the number of trials the workers
\* evaluated and the shared per-mask mass is the mass of those trials
C6_TrialsMergedOnce ==
  (phase = "returned" /\ ret.kind = "Ok" /\ ~args.calc_exact) =>
    /\ results.eval_count = trials.count
    /\ results.wins_by_mask = trials.mass

\* C9: the merges of update_results lose no mass: the total of
\* wins[p] + ties[p] over all players equals the total of the merged
\* wins_by_mask (each merge adds the batch's mass to both)
C9_NoMassLost ==
  phase # "idle" => EquityTotal(results) = MaskTotal(results)

\* C10: after exact_equity returned for ranges whose range r has every
\* weight multiplied by c, every wins and ties entry is c times the entry of
\* the call on the original ranges, and the returned equities are the same
C10_WeightLinearity ==
  (phase = "returned" /\ ret.kind = "Ok" /\ prev.kind = "scaled") =>
    /\ \A p \in Players :
         /\ results.wins[p] = prev.factor * prev.results.wins[p]
         /\ results.ties[p] = prev.factor * prev.results.ties[p]
    /\ \A p \in Players :
         ret.equity[p][1] * prev.equity[p][2] = prev.equity[p][1] * ret.equity[p][2]


\* enumerate_all run by one worker alone, from index idx, with every index
\* enumerated by itself: the boards of the index are added to stats, stats
\* is merged when eval_count reaches MERGE_EVALS or the lookup is in use,
\* and once more after the last index
RECURSIVE Alone(_, _, _)
AloneStats(stats, w) ==
  IF ~w.ok THEN stats
  ELSE IF UseLookup(Postflop) THEN w.stats
  ELSE AddBatch(stats, w.stats, 1)

AloneMerge(idx, stats, res) ==
  IF stats.eval_count >= MERGE_EVALS \/ UseLookup(Postflop)
  THEN Alone(idx + 1, BatchInit(sim.n_players),
             update_results(res, stats, sim.n_players, TRUE))
  ELSE Alone(idx + 1, stats, res)

Alone(idx, stats, res) ==
  IF idx >= Total THEN update_results(res, stats, sim.n_players, TRUE)
  ELSE AloneMerge(idx, AloneStats(stats, WorkAt(idx)), res)

SameOutcome(ref) ==
  /\ results.wins = ref.wins
  /\ results.ties = ref.ties
  /\ results.wins_by_mask = ref.wins_by_mask
  /\ ret.equity = get_equity(ref)

RECURSIVE DirectFold(_, _)
DirectFold(idx, res) ==
  IF idx >= Total THEN res
  ELSE DirectFold(idx + 1,
                  IF WorkAt(idx).ok
                  THEN update_results(res, [BatchInit(sim.n_players) EXCEPT
                                              !.wins_by_mask = WorkAt(idx).direct],
                                      sim.n_players, TRUE)
                  ELSE res)

SameCounts(ref) ==
  /\ results.wins = ref.wins
  /\ results.ties = ref.ties
  /\ results.wins_by_mask = ref.wins_by_mask

\* the index worker t has just processed was served from the lookup table
ServedFromTable(t) ==
  /\ phase = "running" /\ sim.calc_exact /\ UseLookup(Postflop)
  /\ th[t].pc = "merge"
  /\ WorkAt(th[t].enum_pos).ok
  /\ th[t].stats.eval_count = 0

\* C5: the suit-isomorphism lookup is transparent: the batch a worker is
\* about to merge for a valid assignment, whether enumerated or taken from
\* the table under the key (preflop_id, weight), credits to the original
\* players, through player_ids, the per-mask mass that enumerating the
\* boards of that assignment on the untransformed cards credits; and the
\* final counts are those of the enumeration that never uses the table
C5_LookupTransparent ==
  /\ \A t \in Threads :
       (/\ phase = "running" /\ sim.calc_exact /\ UseLookup(Postflop)
        /\ th[t].pc = "merge"
        /\ WorkAt(th[t].enum_pos).ok)
       => ActualMass(th[t].stats, sim.n_players) = WorkAt(th[t].enum_pos).direct
  /\ (phase = "returned" /\ ret.kind = "Ok" /\ sim.calc_exact /\ UseLookup(Postflop))
       => SameCounts(DirectFold(0, ResultsInit(sim.n_players)))

\* a hit on an entry stored by an index whose players sort in another order,
\* for an assignment where one player wins more often than the other
C5_Witness ==
  \E t \in Threads :
    /\ ServedFromTable(t)
    /\ th[t].stats.player_ids # lookup_table[WorkAt(th[t].enum_pos).key].player_ids
    /\ WorkAt(th[t].enum_pos).direct[1] # WorkAt(th[t].enum_pos).direct[2]


\* worker t has left the loop of enumerate_all
Ended(t) == th[t].pc \in {"final", "done", "panicked"}

\* C7: in exact mode the stop flag is never raised, and a worker leaves the
\* loop only on an empty reservation, made when the shared cursor has
\* reached the product of the combined-range sizes
C7_EndsAtExhaustion ==
  (Threads # {} /\ sim.calc_exact) =>
    /\ ~stopped
    /\ \A t \in Threads :
         Ended(t) => (th[t].enum_pos >= th[t].enum_end /\ enum_pos >= Total)

Interval(r) == r.start..(r.end - 1)

\* C8: the intervals handed out by reserve_batch are pairwise disjoint, none
\* is longer than max(2000000 / postflop_combos, 1), and once every worker
\* has ended their union is [0, product of the combined-range sizes) and
\* every flat index has been processed exactly once
C8_IndicesOnce ==
  (Threads # {} /\ sim.calc_exact) =>
    /\ \A i, j \in DOMAIN reserved :
         i # j => Interval(reserved[i]) \cap Interval(reserved[j]) = {}
    /\ \A i \in DOMAIN reserved :
         reserved[i].end - reserved[i].start <= BatchSize(Postflop)
    /\ revisits = 0
    /\ (\A t \in Threads : Ended(t) /\ th[t].pc # "final") =>
         /\ UNION {Interval(reserved[i]) : i \in DOMAIN reserved} = 0..(Total - 1)
         /\ visited = 0..(Total - 1)

(***************************************************************************)
(* Properties of the Monte Carlo trial.                                    *)
(***************************************************************************)

\* the mask of the combo combined range r has selected
SelectedMask(r) == mcw.crs[r].combos[mcw.w.combo_indexes[r - 1] + 1].mask

\* the cards of all selected combos
SelectedCards == UNION {SelectedMask(r) : r \in 1..Len(mcw.crs)}

\* the hole cards in the Hand of player p
HoleCards(p) == BoardCards(mcw.w.player_hands[p])

\* the selected combos are pairwise disjoint and disjoint from the board
SelectionDisjoint ==
  /\ \A r \in 1..Len(mcw.crs) : SelectedMask(r) \cap mcw.board_mask = {}
  /\ \A r1, r2 \in 1..Len(mcw.crs) :
       r1 # r2 => SelectedMask(r1) \cap SelectedMask(r2) = {}

\* C27: in every trial the fixed board cards, the dealt board cards and the
\* hole cards of all players are pairwise distinct: during the walk
\* used_cards_mask is the board mask united with the pairwise disjoint masks
\* of the selected combos, the dealt board has 5 distinct cards outside the
\* hole cards, and each evaluated hand has exactly 7 distinct cards
C27_DistinctCards ==
  mcw.pc \in {"trial", "walk"} =>
    /\ SelectionDisjoint
    /\ ~mcw.w.borrow
    /\ mcw.w.used_cards_mask = mcw.board_mask \cup SelectedCards
    /\ \A p, q \in 0..(TrialPlayers(mcw.input) - 1) :
         /\ HandCount(mcw.w.player_hands[p]) = 2
         /\ Cardinality(HoleCards(p)) = 2
         /\ HoleCards(p) \subseteq SelectedCards
         /\ p # q => HoleCards(p) \cap HoleCards(q) = {}
    /\ mcw.pc = "walk" =>
         /\ HandCount(mcw.board) = BOARD_CARDS
         /\ Cardinality(BoardCards(mcw.board)) = BOARD_CARDS
         /\ mcw.board_mask \subseteq BoardCards(mcw.board)
         /\ BoardCards(mcw.board) \cap SelectedCards = {}
         /\ \A p \in 0..(TrialPlayers(mcw.input) - 1) :
              LET seven == HandAdd(mcw.board, mcw.w.player_hands[p])
              IN /\ HandCount(seven) = 7
                 /\ Cardinality(seven.mask) = 7
                 /\ BoardCards(seven) = HoleCards(p) \cup BoardCards(mcw.board)

\* a second trial of three players, after a walk step, on a board of which
\* two cards were dealt
C27_Witness ==
  /\ mcw.pc = "walk" /\ mcw.input = 2 /\ mcw.walked # 0
  /\ mcw.batch.eval_count = 2
  /\ Cardinality(mcw.board_mask) = 3
  /\ Cardinality(BoardCards(mcw.board) \ mcw.board_mask) = 2

\* the cards combined range r must avoid: the board and the combos the
\* other combined ranges have selected
OtherCards(r) ==
  mcw.board_mask \cup UNION {SelectedMask(q) : q \in 1..Len(mcw.crs) \ {r}}

\* the index d cyclic decrements below idx in a range of n combos
Below(idx, d, n) == (idx + n - d) % n

\* the number of decrements to the first free combo of combined range r
FirstFree(r) ==
  LET n == size(mcw.crs[r])
      cur == mcw.w.combo_indexes[r - 1]
      free == {d \in 1..n :
                 mcw.crs[r].combos[Below(cur, d, n) + 1].mask \cap OtherCards(r) = {}}
  IN IF free = {} THEN 0 ELSE CHOOSE d \in free : \A e \in free : d <= e

\* C28: the random-walk step touches one combined range: from the current
\* index it decrements cyclically, wrapping from 0 to size - 1, stops at the
\* first combo disjoint from the board and from the other ranges' selected
\* combos, needs at most size decrements, and leaves the selections, hands
\* and weights of the other ranges unchanged
C28_WalkStep ==
  [][(mcw.pc = "walk" /\ mcw'.pc = "trial") =>
       LET r == mcw'.walked
           cr == mcw.crs[r]
           n == size(cr)
           d == FirstFree(r)
           moved == {cr.players[j] : j \in 0..(cr.player_count - 1)}
       IN /\ d \in 1..n
          /\ mcw'.w.decrements = d
          /\ mcw'.w.combo_indexes[r - 1] = Below(mcw.w.combo_indexes[r - 1], d, n)
          /\ \A q \in 0..(MAX_PLAYERS - 1) :
               q # r - 1 => mcw'.w.combo_indexes[q] = mcw.w.combo_indexes[q]
          /\ \A p \in 0..(MAX_PLAYERS - 1) :
               p \notin moved =>
                 /\ mcw'.w.player_hands[p] = mcw.w.player_hands[p]
                 /\ mcw'.w.combo_weights[p] = mcw.w.combo_weights[p]
          /\ \A j \in 0..(cr.player_count - 1) :
               LET hc == cr.combos[mcw'.w.combo_indexes[r - 1] + 1].hole_cards[j]
               IN /\ mcw'.w.player_hands[cr.players[j]] = HandFromHoleCards(hc[1], hc[2])
                  /\ mcw'.w.combo_weights[cr.players[j]] = hc[3]]_vars

\* a step on the first combined range that wrapped below index 0 and passed
\* the combo at 119 because the second range holds a card of it
C28_Witness ==
  /\ mcw.pc = "trial" /\ mcw.walked = 1 /\ mcw.batch.eval_count = 1
  /\ mcw.w.combo_indexes[1] = 119
  /\ mcw.w.combo_indexes[0] \in 100..118
  /\ mcw.w.decrements >= 2

\* the locals of the worker describe the selection of combo_indexes: the
\* mask, and for every slot of every combined range the hand and the weight
\* of its player
LocalsDescribeSelection ==
  /\ mcw.w.used_cards_mask = mcw.board_mask \cup SelectedCards
  /\ \A r \in 1..Len(mcw.crs) :
       LET cr == mcw.crs[r]
           combo == cr.combos[mcw.w.combo_indexes[r - 1] + 1]
       IN \A j \in 0..(cr.player_count - 1) :
            /\ mcw.w.player_hands[cr.players[j]] =
                 HandFromHoleCards(combo.hole_cards[j][1], combo.hole_cards[j][2])
            /\ mcw.w.combo_weights[cr.players[j]] = combo.hole_cards[j][3]

\* C29: randomize_hole_cards makes at most 1000 attempts; it returns true
\* only with combos that are pairwise disjoint and disjoint from the board,
\* and then used_cards_mask, combo_indexes, player_hands and combo_weights
\* describe that one drawn assignment; when it returns false the worker
\* evaluates no further trial, merges its batch for the last time and
\* returns
C29_Seeding ==
  /\ mcw.attempts <= SEED_ATTEMPTS
  /\ mcw.pc = "seed" => mcw.attempts < SEED_ATTEMPTS
  /\ (mcw.pc = "trial" /\ mcw.walked = 0 /\ mcw.batch.eval_count = 0) =>
       /\ mcw.w.ok
       /\ \E draw \in TrialDraws :
            \A r \in 1..Len(mcw.crs) : mcw.w.combo_indexes[r - 1] = draw[r]
       /\ SelectionDisjoint
       /\ LocalsDescribeSelection
  /\ mcw.pc \in {"final", "done"} =>
       /\ ~mcw.w.ok
       /\ mcw.attempts = SEED_ATTEMPTS
       /\ ~SelectionDisjoint
       /\ mcw.batch = BatchInit(TrialPlayers(mcw.input))
  /\ mcw.pc = "final" => \A k \in 1..Len(mcw.merges) : mcw.merges[k] = MC_BATCH
  /\ mcw.pc = "done" =>
       /\ mcw.merges # <<>>
       /\ \A k \in 1..Len(mcw.merges) :
            mcw.merges[k] = IF k = Len(mcw.merges) THEN 0 ELSE MC_BATCH

\* the worker has returned after a first seeding that succeeded and a
\* re-seeding at the end of a batch that failed 1000 times
C29_Witness ==
  /\ mcw.pc = "done" /\ mcw.attempts = SEED_ATTEMPTS
  /\ mcw.merges = <<MC_BATCH, 0>>
  /\ ~mcw.w.ok

\* the score of player p in the trial that ended: its hole cards with the
\* board of the trial
TrialScore(p) == evaluate(HandAdd(mcw.board, mcw.w.player_hands[p]))

\* the players whose score is the maximum
TrialWinners ==
  LET n == TrialPlayers(mcw.input)
  IN {p \in 0..(n - 1) : \A q \in 0..(n - 1) : TrialScore(q) <= TrialScore(p)}

RECURSIVE MaskOfPlayers(_, _, _)
\* the mask with bit p set for every player p < n of ps
MaskOfPlayers(ps, n, p) ==
  IF p >= n THEN 0
  ELSE (IF p \in ps THEN 2 ^ p ELSE 0) + MaskOfPlayers(ps, n, p + 1)

\* C30: a call of evaluate_hands credits exactly one winner mask: the mask
\* is not empty, has bit i set exactly for the players whose score is the
\* maximum over the n_players players, receives the weight of the call, and
\* eval_count grows by 1; nothing else in the batch changes
C30_OneWinnerMask ==
  mcw.pc = "walk" =>
    LET n == TrialPlayers(mcw.input)
        m == MaskOfPlayers(TrialWinners, n, 0)
    IN /\ TrialWinners # {} /\ m \in 1..(2 ^ n - 1)
       /\ mcw.weight > 0
       /\ mcw.batch.wins_by_mask =
            [mcw.before.wins_by_mask EXCEPT ![m] = @ + mcw.weight]
       /\ mcw.batch.eval_count = mcw.before.eval_count + 1
       /\ mcw.batch.player_ids = mcw.before.player_ids

\* two trials of two players: one tied, one won by a single player
C30_Witness ==
  /\ mcw.pc = "walk" /\ mcw.input = 1 /\ mcw.batch.eval_count = 2
  /\ mcw.batch.wins_by_mask[3] > 0
  /\ mcw.batch.wins_by_mask[1] + mcw.batch.wins_by_mask[2] > 0


=============================================================================
